---- MODULE Spec2Model ----
(***************************************************************************)
(* Net-Care daycare management backend: the request handlers of the REST   *)
(* API as atomic steps over the relational store.                          *)
(*                                                                         *)
(* Every table is a function from the ids of its rows to the columns the   *)
(* handlers read or write.  Every handler is one action: its guards are    *)
(* the handler's checks in source order, a raised HTTPException leaves the *)
(* store unchanged and is recorded, like a success, in `response`.         *)
(***************************************************************************)
EXTENDS Integers, Sequences, FiniteSets, TLC

VARIABLES
    children,       \* children table: id -> [is_active]
    contacts,       \* emergency_contacts table: id -> [child_id, priority_order]
    attendance,     \* attendance table
    pickups,        \* authorized_pickup table
    auths,          \* medication_authorizations table
    logs,           \* medication_logs table
    immunizations,  \* immunization_records table
    credentials,    \* staff_credentials table
    incidents,      \* incident_reports table
    parents,        \* parents table
    child_parents,  \* child_parents table: the links of children to parents
    activities,     \* activities table
    enrollment_forms, \* enrollment_forms table
    today,          \* date.today(), in days
    grace,          \* settings.LATE_PICKUP_GRACE_MINUTES
    in_flight,      \* per client: the request that has run its queries and not yet committed
    response        \* the answer to the last request

vars == <<children, contacts, attendance, pickups, auths, logs,
          immunizations, credentials, incidents, parents, child_parents,
          activities, enrollment_forms, today, grace, in_flight, response>>

----------------------------------------------------------------------------
(* Bounds of the model *)

MaxChildren == 2
MaxContacts == 3
MaxPriority == 2

MaxAttendance == 2
MaxDay == 1
MaxGrace == 1
MaxAuths == 1
MaxLogs == 1
MaxDate == 2
MaxPickups == 2
MaxImmunizations == 2
MaxCredentials == 1
MaxDaysAhead == 2
MaxIncidents == 1
MaxParents == 2
MaxLinks == 3
MaxActivities == 1
MaxForms == 2
MaxRows == 2
MaxClients == 2

ChildIds == 1..MaxChildren
ContactIds == 1..MaxContacts
AttendanceIds == 1..MaxAttendance
Days == 0..MaxDay
AuthIds == 1..MaxAuths
LogIds == 1..MaxLogs
Dates == 0..MaxDate
PickupIds == 1..MaxPickups
\* priority_order is any int of the request body
Priorities == 0..MaxPriority

(* HTTP status codes *)
HTTP_200_OK == 200
HTTP_201_CREATED == 201
HTTP_204_NO_CONTENT == 204
HTTP_400_BAD_REQUEST == 400
HTTP_403_FORBIDDEN == 403
HTTP_404_NOT_FOUND == 404
HTTP_500_INTERNAL_SERVER_ERROR == 500

(* current_user.role of the caller *)
Roles == {"staff", "admin"}

(* the users table: an administrator and a staff member, as the test fixtures
   test_admin and test_user *)
Users == {1, 2}
UserRole(user_id) == IF user_id = 1 THEN "admin" ELSE "staff"

(* Optional[...] = None *)
None == 0
NoDate == -1
(* a field the request body does not set (model_dump(exclude_unset=True)) *)
Unset == -2

----------------------------------------------------------------------------
(* The store *)

\* uuid.uuid4 primary key: an id no row of the table holds
FreshId(table, ids) == CHOOSE i \in ids \ DOMAIN table : \A j \in ids \ DOMAIN table : i <= j

\* db.add(row)
Insert(table, id, row) == [i \in DOMAIN table \cup {id} |-> IF i = id THEN row ELSE table[i]]

\* db.delete(row)
Remove(table, id) == [i \in DOMAIN table \ {id} |-> table[i]]

\* cascade="all, delete-orphan": the rows of a table that belong to no deleted parent
Cascade_Keep(table, child_id) == table

Cascade(table, child_id) == [i \in {j \in DOMAIN table : table[j].child_id # child_id} |-> table[i]]

\* the rows of a table owned by a child
RowsOf(table, child_id) == {i \in DOMAIN table : table[i].child_id = child_id}

EmptyTable == [i \in {} |-> None]

\* the clients whose requests may be in flight at once
Clients == 1..MaxClients

\* a client with no request between its queries and its commit
Idle == [op |-> "idle"]

\* no request in flight
NoRequests == [c \in Clients |-> Idle]

\* the answer to a request: the handler's return or the HTTPException it raised
Resp_Refused(op, status, id, child_id) ==
    [op |-> op, status |-> HTTP_400_BAD_REQUEST, id |-> id, child_id |-> child_id]

Resp(op, status, id, child_id) == [op |-> op, status |-> status, id |-> id, child_id |-> child_id]

\* the answer to a request whose permission depends on who current_user is
CallerResp(current_user, op, status, id, child_id) ==
    [op |-> op, status |-> status, id |-> id, child_id |-> child_id,
     current_user |-> current_user]

\* the answer to a hard delete, with current_user.role of the caller
DeleteResp(role, op, status, id, child_id) ==
    [op |-> op, status |-> status, id |-> id, child_id |-> child_id, role |-> role]

\* if current_user.role != "admin": 403
NotAdmin_Never(role) == FALSE

NotAdmin(role) == role # "admin"

----------------------------------------------------------------------------
(* Children *)

ChildFrame == <<contacts, attendance, pickups, auths, logs, immunizations, credentials, incidents, parents, child_parents, activities, enrollment_forms, today, grace, in_flight>>

create_child ==
    /\ DOMAIN children # ChildIds
    /\ \E is_active \in BOOLEAN :
         LET id == FreshId(children, ChildIds) IN
         /\ children' = Insert(children, id, [is_active |-> is_active])
         /\ response' = Resp("create_child", HTTP_201_CREATED, id, id)
    /\ UNCHANGED <<contacts, attendance, pickups, auths, logs, immunizations, credentials, incidents, parents, child_parents, activities, enrollment_forms, today, grace, in_flight>>

\* hard delete, admin only; the relationships of Child cascade
delete_child ==
    \E child_id \in ChildIds, role \in Roles :
      IF NotAdmin(role)
      THEN /\ response' = DeleteResp(role, "delete_child", HTTP_403_FORBIDDEN, child_id, child_id)
           /\ UNCHANGED <<children, contacts, attendance, pickups, auths, logs,
                          immunizations, credentials, incidents, parents, child_parents, activities, enrollment_forms, today, grace, in_flight>>
      ELSE IF child_id \notin DOMAIN children
      THEN /\ response' = DeleteResp(role, "delete_child", HTTP_404_NOT_FOUND, child_id, child_id)
           /\ UNCHANGED <<children, contacts, attendance, pickups, auths, logs,
                          immunizations, credentials, incidents, parents, child_parents, activities, enrollment_forms, today, grace, in_flight>>
      ELSE /\ children' = Remove(children, child_id)
           /\ contacts' = Cascade(contacts, child_id)
           /\ attendance' = Cascade(attendance, child_id)
           /\ pickups' = Cascade(pickups, child_id)
           /\ auths' = Cascade(auths, child_id)
           /\ logs' = [i \in {j \in DOMAIN logs :
                                /\ logs[j].child_id # child_id
                                /\ logs[j].authorization_id \in DOMAIN Cascade(auths, child_id)}
                       |-> logs[i]]
           /\ immunizations' = Cascade(immunizations, child_id)
           /\ incidents' = Cascade(incidents, child_id)
           /\ child_parents' = Cascade(child_parents, child_id)
           /\ activities' = Cascade(activities, child_id)
           /\ enrollment_forms' = Cascade(enrollment_forms, child_id)
           /\ response' = DeleteResp(role, "delete_child", HTTP_204_NO_CONTENT, child_id, child_id)
           /\ UNCHANGED <<credentials, parents, today, grace, in_flight>>


\* PUT /{child_id}: is_active is the one field of ChildUpdate the handlers read
update_child ==
    \E child_id \in ChildIds, update_data \in SUBSET {"is_active"}, is_active \in BOOLEAN :
      IF child_id \notin DOMAIN children
      THEN /\ response' = Resp("update_child", HTTP_404_NOT_FOUND, child_id, child_id)
           /\ UNCHANGED <<children, ChildFrame>>
      ELSE /\ children' = IF "is_active" \notin update_data THEN children
                          ELSE [children EXCEPT ![child_id].is_active = is_active]
           /\ response' = Resp("update_child", HTTP_200_OK, child_id, child_id)
           /\ UNCHANGED ChildFrame

deactivate_child ==
    \E child_id \in ChildIds :
      IF child_id \notin DOMAIN children
      THEN /\ response' = Resp("deactivate_child", HTTP_404_NOT_FOUND, child_id, child_id)
           /\ UNCHANGED <<children, ChildFrame>>
      ELSE /\ children' = [children EXCEPT ![child_id].is_active = FALSE]
           /\ response' = Resp("deactivate_child", HTTP_200_OK, child_id, child_id)
           /\ UNCHANGED ChildFrame

activate_child ==
    \E child_id \in ChildIds :
      IF child_id \notin DOMAIN children
      THEN /\ response' = Resp("activate_child", HTTP_404_NOT_FOUND, child_id, child_id)
           /\ UNCHANGED <<children, ChildFrame>>
      ELSE /\ children' = [children EXCEPT ![child_id].is_active = TRUE]
           /\ response' = Resp("activate_child", HTTP_200_OK, child_id, child_id)
           /\ UNCHANGED ChildFrame

----------------------------------------------------------------------------
(* Attendance *)

(* datetime.time at second granularity: seconds since midnight *)
SecondsPerMinute == 60
SecondsPerDay == 86400
Time(h, m, s) == (h * 60 + m) * SecondsPerMinute + s
NoTime == -1

\* standard_pickup = time(18, 0)
standard_pickup == Time(18, 0, 0)

\* the default of Settings.LATE_PICKUP_GRACE_MINUTES
LATE_PICKUP_GRACE_MINUTES == 15

\* the values the setting takes here: the default and the small ones
GraceValues == (0..MaxGrace) \cup {LATE_PICKUP_GRACE_MINUTES}

CheckInTimes == {Time(8, 0, 0)}
CheckOutTimes == {Time(17, 0, 0), Time(18, 15, 30), Time(18, 20, 0)}
\* every second around the end of each grace period, the ends and the middle of
\* the day, and 18:20:00
SecondsAround(grace_minutes) ==
    (standard_pickup + (grace_minutes - 1) * SecondsPerMinute - 10)
        ..(standard_pickup + (grace_minutes + 2) * SecondsPerMinute + 10)
PickupSeconds ==
    UNION {SecondsAround(g) : g \in GraceValues}
        \cup {0, Time(12, 0, 0), Time(18, 20, 0), SecondsPerDay - 1}
Names == {"Mom", "Dad"}
NoName == "None"

\* the attendance row of the child for the date: .first() of the filtered query
ExistingAttendance_OpenOnly(child_id, date) ==
    {a \in RowsOf(attendance, child_id) :
        attendance[a].attendance_date = date /\ attendance[a].check_out_time = NoTime}

ExistingAttendance(child_id, date) ==
    {a \in RowsOf(attendance, child_id) : attendance[a].attendance_date = date}

\* `if not child.is_active`
ChildInactive_Never(child) == FALSE

ChildInactive(child) == ~child.is_active

\* `if attendance.check_out_time`: a datetime.time is true whatever its value
AlreadyCheckedOut_Never(row) == FALSE

AlreadyCheckedOut(row) == row.check_out_time # NoTime

\* int((checkout_datetime - standard_datetime).total_seconds() / 60)
late_minutes(check_out_time) == (check_out_time - standard_pickup) \div SecondsPerMinute

\* `if late_minutes > settings.LATE_PICKUP_GRACE_MINUTES`
BeyondGrace_AtGrace(minutes, grace_minutes) == minutes >= grace_minutes

BeyondGrace(minutes, grace_minutes) == minutes > grace_minutes

\* the row after the checkout was written to it
CheckedOut(row, check_out_time, check_out_by_name, grace_minutes) ==
    LET out == [row EXCEPT !.check_out_time = check_out_time,
                           !.check_out_by_name = check_out_by_name] IN
    IF check_out_time > standard_pickup /\ BeyondGrace(late_minutes(check_out_time), grace_minutes)
    THEN [out EXCEPT !.is_late_pickup = TRUE,
                     !.late_pickup_minutes = late_minutes(check_out_time) - grace_minutes]
    ELSE out

AttendanceFrame == <<children, contacts, pickups, auths, logs, immunizations, credentials, incidents, parents, child_parents, activities, enrollment_forms, today, grace, in_flight>>

\* notes and the signature urls are stored as given and read by no handler
check_in_child ==
    \E child_id \in ChildIds, check_in_time \in CheckInTimes :
      IF child_id \notin DOMAIN children
      THEN /\ response' = Resp("check_in_child", HTTP_404_NOT_FOUND, None, child_id)
           /\ UNCHANGED <<attendance, AttendanceFrame>>
      ELSE IF ChildInactive(children[child_id])
      THEN /\ response' = Resp("check_in_child", HTTP_400_BAD_REQUEST, None, child_id)
           /\ UNCHANGED <<attendance, AttendanceFrame>>
      ELSE IF ExistingAttendance(child_id, today) # {}
      THEN /\ response' = Resp("check_in_child", HTTP_400_BAD_REQUEST, None, child_id)
           /\ UNCHANGED <<attendance, AttendanceFrame>>
      ELSE /\ DOMAIN attendance # AttendanceIds
           /\ LET id == FreshId(attendance, AttendanceIds) IN
              /\ attendance' = Insert(attendance, id,
                                 [child_id |-> child_id,
                                  attendance_date |-> today,
                                  check_in_time |-> check_in_time,
                                  check_out_time |-> NoTime,
                                  check_out_by_name |-> NoName,
                                  is_late_pickup |-> FALSE,
                                  late_pickup_minutes |-> 0])
              /\ response' = Resp("check_in_child", HTTP_201_CREATED, id, child_id)
           /\ UNCHANGED AttendanceFrame

CheckOut(times, names) ==
    \E attendance_id \in AttendanceIds, check_out_time \in times, check_out_by_name \in names :
      IF attendance_id \notin DOMAIN attendance
      THEN /\ response' = Resp("check_out_child", HTTP_404_NOT_FOUND, attendance_id, None)
           /\ UNCHANGED <<attendance, AttendanceFrame>>
      ELSE IF AlreadyCheckedOut(attendance[attendance_id])
      THEN /\ response' = Resp("check_out_child", HTTP_400_BAD_REQUEST, attendance_id,
                               attendance[attendance_id].child_id)
           /\ UNCHANGED <<attendance, AttendanceFrame>>
      ELSE /\ attendance' = [attendance EXCEPT ![attendance_id] =
                               CheckedOut(@, check_out_time, check_out_by_name, grace)]
           /\ response' = Resp("check_out_child", HTTP_200_OK, attendance_id,
                               attendance[attendance_id].child_id)
           /\ UNCHANGED AttendanceFrame

check_out_child == CheckOut(CheckOutTimes, Names)

\* the same handler, asked with every second around the pickup time
check_out_child_any_second == CheckOut(PickupSeconds, {"Mom"})

delete_attendance_record ==
    \E attendance_id \in AttendanceIds, role \in Roles :
      IF NotAdmin(role)
      THEN /\ response' = DeleteResp(role, "delete_attendance_record", HTTP_403_FORBIDDEN, attendance_id, None)
           /\ UNCHANGED <<attendance, AttendanceFrame>>
      ELSE IF attendance_id \notin DOMAIN attendance
      THEN /\ response' = DeleteResp(role, "delete_attendance_record", HTTP_404_NOT_FOUND, attendance_id, None)
           /\ UNCHANGED <<attendance, AttendanceFrame>>
      ELSE /\ attendance' = Remove(attendance, attendance_id)
           /\ response' = DeleteResp(role, "delete_attendance_record", HTTP_204_NO_CONTENT, attendance_id,
                               attendance[attendance_id].child_id)
           /\ UNCHANGED AttendanceFrame

\* the clock: date.today() moves to the next day
next_day ==
    /\ today < MaxDay
    /\ today' = today + 1
    /\ response' = Resp("next_day", HTTP_200_OK, None, None)
    /\ UNCHANGED <<children, contacts, attendance, pickups, auths, logs, immunizations,
                   credentials, incidents, parents, child_parents, activities, enrollment_forms, grace, in_flight>>

----------------------------------------------------------------------------
(* Emergency contacts *)

\* remaining_contacts = db.query(EmergencyContact).filter(child_id == ...).count()
ContactCount(table, child_id) == Cardinality(RowsOf(table, child_id))

\* the DCFS floor of delete_emergency_contact
BelowFloor_LessThan(remaining_contacts) == remaining_contacts < 2

BelowFloor(remaining_contacts) == remaining_contacts <= 2

\* a contact of the child, other than `except`, holds the priority
PriorityTaken_Never(child_id, priority_order, except) == FALSE

PriorityTaken(child_id, priority_order, except) ==
    \E i \in RowsOf(contacts, child_id) : i # except /\ contacts[i].priority_order = priority_order

ContactsFrame == <<children, attendance, pickups, auths, logs, immunizations, credentials, incidents, parents, child_parents, activities, enrollment_forms, today, grace, in_flight>>

create_emergency_contact ==
    \E child_id \in ChildIds, priority_order \in Priorities :
      IF child_id \notin DOMAIN children
      THEN /\ response' = Resp("create_emergency_contact", HTTP_404_NOT_FOUND, None, child_id)
           /\ UNCHANGED <<contacts, ContactsFrame>>
      ELSE IF PriorityTaken(child_id, priority_order, None)
      THEN /\ response' = Resp("create_emergency_contact", HTTP_400_BAD_REQUEST, None, child_id)
           /\ UNCHANGED <<contacts, ContactsFrame>>
      ELSE /\ DOMAIN contacts # ContactIds
           /\ LET id == FreshId(contacts, ContactIds) IN
              /\ contacts' = Insert(contacts, id, [child_id |-> child_id, priority_order |-> priority_order])
              /\ response' = Resp("create_emergency_contact", HTTP_201_CREATED, id, child_id)
           /\ UNCHANGED ContactsFrame

\* a body that sets priority_order to null breaks nullable=False at the commit
\* and is not among the requests drawn here
update_emergency_contact ==
    \E contact_id \in ContactIds, priority_order \in Priorities \cup {Unset} :
      IF contact_id \notin DOMAIN contacts
      THEN /\ response' = Resp("update_emergency_contact", HTTP_404_NOT_FOUND, contact_id, None)
           /\ UNCHANGED <<contacts, ContactsFrame>>
      ELSE LET contact == contacts[contact_id] IN
           IF /\ priority_order # Unset
              /\ priority_order # contact.priority_order
              /\ PriorityTaken(contact.child_id, priority_order, contact_id)
           THEN /\ response' = Resp("update_emergency_contact", HTTP_400_BAD_REQUEST, contact_id, contact.child_id)
                /\ UNCHANGED <<contacts, ContactsFrame>>
           ELSE /\ contacts' = IF priority_order = Unset THEN contacts
                               ELSE [contacts EXCEPT ![contact_id].priority_order = priority_order]
                /\ response' = Resp("update_emergency_contact", HTTP_200_OK, contact_id, contact.child_id)
                /\ UNCHANGED ContactsFrame

delete_emergency_contact ==
    \E contact_id \in ContactIds :
      IF contact_id \notin DOMAIN contacts
      THEN /\ response' = Resp("delete_emergency_contact", HTTP_404_NOT_FOUND, contact_id, None)
           /\ UNCHANGED <<contacts, ContactsFrame>>
      ELSE LET contact == contacts[contact_id]
               remaining_contacts == ContactCount(contacts, contact.child_id) IN
           IF BelowFloor(remaining_contacts)
           THEN /\ response' = Resp("delete_emergency_contact", HTTP_400_BAD_REQUEST, contact_id, contact.child_id)
                /\ UNCHANGED <<contacts, ContactsFrame>>
           ELSE /\ contacts' = Remove(contacts, contact_id)
                /\ response' = Resp("delete_emergency_contact", HTTP_204_NO_CONTENT, contact_id, contact.child_id)
                /\ UNCHANGED ContactsFrame

\* the priority a contact of the child holds after contact_id moved from old to new
Reordered(c, contact_id, old_priority, new_priority) ==
    IF c = contact_id THEN new_priority
    ELSE IF new_priority < old_priority
         THEN IF new_priority <= contacts[c].priority_order /\ contacts[c].priority_order < old_priority
              THEN contacts[c].priority_order + 1 ELSE contacts[c].priority_order
         ELSE IF old_priority < contacts[c].priority_order /\ contacts[c].priority_order <= new_priority
              THEN contacts[c].priority_order - 1 ELSE contacts[c].priority_order

\* new_priority is any int of the path, kept with the answer
reorder_emergency_contact ==
    \E contact_id \in ContactIds, new_priority \in Priorities :
      IF contact_id \notin DOMAIN contacts
      THEN /\ response' = Resp("reorder_emergency_contact", HTTP_404_NOT_FOUND, contact_id, None)
           /\ UNCHANGED <<contacts, ContactsFrame>>
      ELSE LET contact == contacts[contact_id]
               old_priority == contact.priority_order IN
           /\ contacts' = IF old_priority = new_priority THEN contacts
                          ELSE [c \in DOMAIN contacts |->
                                  IF contacts[c].child_id = contact.child_id
                                  THEN [contacts[c] EXCEPT !.priority_order =
                                          Reordered(c, contact_id, old_priority, new_priority)]
                                  ELSE contacts[c]]
           /\ response' = [op |-> "reorder_emergency_contact", status |-> HTTP_200_OK,
                            id |-> contact_id, child_id |-> contact.child_id,
                            new_priority |-> new_priority]
           /\ UNCHANGED ContactsFrame

----------------------------------------------------------------------------
(* Medication authorizations and logs *)

MedFrame == <<children, contacts, attendance, pickups, immunizations, credentials, incidents, parents, child_parents, activities, enrollment_forms, today, grace, in_flight>>

create_medication_authorization ==
    \E child_id \in ChildIds, start_date \in Dates, end_date \in Dates \cup {NoDate},
       is_active \in BOOLEAN :
      IF child_id \notin DOMAIN children
      THEN /\ response' = Resp("create_medication_authorization", HTTP_404_NOT_FOUND, None, child_id)
           /\ UNCHANGED <<auths, logs, MedFrame>>
      ELSE /\ DOMAIN auths # AuthIds
           /\ LET id == FreshId(auths, AuthIds) IN
              /\ auths' = Insert(auths, id, [child_id |-> child_id, start_date |-> start_date,
                                            end_date |-> end_date, is_active |-> is_active])
              /\ response' = Resp("create_medication_authorization", HTTP_201_CREATED, id, child_id)
           /\ UNCHANGED <<logs, MedFrame>>

\* setattr writes the fields of MedicationAuthorizationUpdate the body sets
\* (exclude_unset) and leaves the others: the bodies are drawn from the values
\* create takes, so the merged row is any row of the same child over those values
update_medication_authorization ==
    \E authorization_id \in AuthIds, start_date \in Dates, end_date \in Dates \cup {NoDate},
       is_active \in BOOLEAN :
      IF authorization_id \notin DOMAIN auths
      THEN /\ response' = Resp("update_medication_authorization", HTTP_404_NOT_FOUND, authorization_id, None)
           /\ UNCHANGED <<auths, logs, MedFrame>>
      ELSE LET authorization == auths[authorization_id] IN
           /\ auths' = [auths EXCEPT ![authorization_id] =
                 [child_id |-> authorization.child_id,
                  start_date |-> start_date,
                  end_date |-> end_date,
                  is_active |-> is_active]]
           /\ response' = Resp("update_medication_authorization", HTTP_200_OK, authorization_id,
                               authorization.child_id)
           /\ UNCHANGED <<logs, MedFrame>>

deactivate_medication_authorization ==
    \E authorization_id \in AuthIds :
      IF authorization_id \notin DOMAIN auths
      THEN /\ response' = Resp("deactivate_medication_authorization", HTTP_404_NOT_FOUND, authorization_id, None)
           /\ UNCHANGED <<auths, logs, MedFrame>>
      ELSE /\ auths' = [auths EXCEPT ![authorization_id].is_active = FALSE]
           /\ response' = Resp("deactivate_medication_authorization", HTTP_200_OK, authorization_id,
                               auths[authorization_id].child_id)
           /\ UNCHANGED <<logs, MedFrame>>

\* admin only; MedicationAuthorization.medication_logs cascades
delete_medication_authorization ==
    \E authorization_id \in AuthIds, role \in Roles :
      IF NotAdmin(role)
      THEN /\ response' = DeleteResp(role, "delete_medication_authorization", HTTP_403_FORBIDDEN, authorization_id, None)
           /\ UNCHANGED <<auths, logs, MedFrame>>
      ELSE IF authorization_id \notin DOMAIN auths
      THEN /\ response' = DeleteResp(role, "delete_medication_authorization", HTTP_404_NOT_FOUND, authorization_id, None)
           /\ UNCHANGED <<auths, logs, MedFrame>>
      ELSE /\ auths' = Remove(auths, authorization_id)
           /\ logs' = [i \in {j \in DOMAIN logs : logs[j].authorization_id # authorization_id}
                       |-> logs[i]]
           /\ response' = DeleteResp(role, "delete_medication_authorization", HTTP_204_NO_CONTENT, authorization_id,
                               auths[authorization_id].child_id)
           /\ UNCHANGED MedFrame

\* `if not authorization.is_active`
AuthorizationInactive(authorization) == ~authorization.is_active

\* `if authorization.child_id != log_data.child_id`
OtherChild_Never(authorization, child_id) == FALSE

OtherChild(authorization, child_id) == authorization.child_id # child_id

\* `if log_data.administration_date < authorization.start_date`
BeforeStart(authorization, administration_date) == administration_date < authorization.start_date

\* `if authorization.end_date and log_data.administration_date > authorization.end_date`
AfterEnd_Never(authorization, administration_date) == FALSE

AfterEnd(authorization, administration_date) ==
    authorization.end_date # NoDate /\ administration_date > authorization.end_date

\* the request of create_medication_log and its answer
LogResp(status, id, child_id, authorization_id, administration_date) ==
    [op |-> "create_medication_log", status |-> status, id |-> id, child_id |-> child_id,
     authorization_id |-> authorization_id, administration_date |-> administration_date]

create_medication_log ==
    \E child_id \in ChildIds, authorization_id \in AuthIds, administration_date \in Dates,
       current_user \in Users :
      IF child_id \notin DOMAIN children
      THEN /\ response' = LogResp(HTTP_404_NOT_FOUND, None, child_id, authorization_id, administration_date)
           /\ UNCHANGED <<auths, logs, MedFrame>>
      ELSE IF authorization_id \notin DOMAIN auths
      THEN /\ response' = LogResp(HTTP_404_NOT_FOUND, None, child_id, authorization_id, administration_date)
           /\ UNCHANGED <<auths, logs, MedFrame>>
      ELSE IF \/ AuthorizationInactive(auths[authorization_id])
              \/ OtherChild(auths[authorization_id], child_id)
              \/ BeforeStart(auths[authorization_id], administration_date)
              \/ AfterEnd(auths[authorization_id], administration_date)
      THEN /\ response' = LogResp(HTTP_400_BAD_REQUEST, None, child_id, authorization_id, administration_date)
           /\ UNCHANGED <<auths, logs, MedFrame>>
      ELSE /\ DOMAIN logs # LogIds
           /\ LET id == FreshId(logs, LogIds) IN
              /\ logs' = Insert(logs, id, [child_id |-> child_id,
                                          authorization_id |-> authorization_id,
                                          administration_date |-> administration_date,
                                          administered_by |-> current_user,
                                          parent_notified |-> FALSE])
              /\ response' = LogResp(HTTP_201_CREATED, id, child_id, authorization_id, administration_date)
           /\ UNCHANGED <<auths, MedFrame>>

\* `if log.administered_by != current_user.id and current_user.role != "admin"`
NotGiverNorAdmin_AdminOnly(log, current_user) == UserRole(current_user) # "admin"

NotGiverNorAdmin(log, current_user) ==
    log.administered_by # current_user /\ UserRole(current_user) # "admin"

\* setattr writes the fields of MedicationLogUpdate the body sets
update_medication_log ==
    \E log_id \in LogIds, parent_notified \in BOOLEAN, current_user \in Users :
      IF log_id \notin DOMAIN logs
      THEN /\ response' = CallerResp(current_user, "update_medication_log", HTTP_404_NOT_FOUND, log_id, None)
           /\ UNCHANGED <<auths, logs, MedFrame>>
      ELSE IF NotGiverNorAdmin(logs[log_id], current_user)
      THEN /\ response' = CallerResp(current_user, "update_medication_log", HTTP_403_FORBIDDEN, log_id, None)
           /\ UNCHANGED <<auths, logs, MedFrame>>
      ELSE /\ logs' = [logs EXCEPT ![log_id].parent_notified = parent_notified]
           /\ response' = CallerResp(current_user, "update_medication_log", HTTP_200_OK, log_id,
                                     logs[log_id].child_id)
           /\ UNCHANGED <<auths, MedFrame>>

\* admin only: `if current_user.role != "admin"`, before the log is looked up
delete_medication_log ==
    \E log_id \in LogIds, current_user \in Users :
      IF UserRole(current_user) # "admin"
      THEN /\ response' = CallerResp(current_user, "delete_medication_log", HTTP_403_FORBIDDEN, log_id, None)
           /\ UNCHANGED <<auths, logs, MedFrame>>
      ELSE IF log_id \notin DOMAIN logs
      THEN /\ response' = CallerResp(current_user, "delete_medication_log", HTTP_404_NOT_FOUND, log_id, None)
           /\ UNCHANGED <<auths, logs, MedFrame>>
      ELSE /\ logs' = Remove(logs, log_id)
           /\ response' = CallerResp(current_user, "delete_medication_log", HTTP_204_NO_CONTENT, log_id,
                                     logs[log_id].child_id)
           /\ UNCHANGED <<auths, MedFrame>>

\* the names medications.py imports from sqlalchemy: `from sqlalchemy import and_`
Imported == {"and_"}

\* the filter of active_authorizations: the child's active authorizations
\* whose window holds the date
active_authorizations(child_id, schedule_date) ==
    {a \in DOMAIN auths :
        /\ auths[a].child_id = child_id
        /\ auths[a].is_active
        /\ auths[a].start_date <= schedule_date
        /\ (auths[a].end_date = NoDate \/ auths[a].end_date >= schedule_date)}

\* logs_today narrowed to one authorization
administered_logs(child_id, schedule_date, authorization_id) ==
    {l \in DOMAIN logs :
        /\ logs[l].child_id = child_id
        /\ logs[l].administration_date = schedule_date
        /\ logs[l].authorization_id = authorization_id}

\* schedule["medications"]
Medications(child_id, schedule_date) ==
    {[authorization_id |-> a,
      administered |-> Cardinality(administered_logs(child_id, schedule_date, a)) > 0] :
        a \in active_authorizations(child_id, schedule_date)}

\* the request of get_child_medication_schedule and its answer
ScheduleResp(status, child_id, schedule_date, medications) ==
    [op |-> "get_child_medication_schedule", status |-> status, id |-> None,
     child_id |-> child_id, schedule_date |-> schedule_date, medications |-> medications]

\* the query names or_, which the module does not import: evaluating it raises
\* NameError and the request answers 500
get_child_medication_schedule ==
    \E child_id \in ChildIds, schedule_date \in Dates :
      /\ response' =
           IF child_id \notin DOMAIN children
           THEN ScheduleResp(HTTP_404_NOT_FOUND, child_id, schedule_date, {})
           ELSE IF "or_" \notin Imported
           THEN ScheduleResp(HTTP_500_INTERNAL_SERVER_ERROR, child_id, schedule_date, {})
           ELSE ScheduleResp(HTTP_200_OK, child_id, schedule_date,
                             Medications(child_id, schedule_date))
      /\ UNCHANGED <<auths, logs, MedFrame>>

----------------------------------------------------------------------------
(* Authorized pickups *)

(* a str is the sequence of its characters *)
NoText == "None"

\* str.lower() on the characters used here
Lower(char) == IF char = "A" THEN "a" ELSE IF char = "B" THEN "b" ELSE char

\* the names stored by create and update, and the names asked of verify: the
\* path parameter is not empty and reaches the LIKE pattern as it is
StoredNames == {<<"A", "b">>, <<"b", "a">>}
SuppliedNames == {<<"A", "b">>, <<"a", "b">>, <<"a">>, <<"b">>, <<"b", "b">>,
                  <<"%">>, <<"_", "a">>}
PasswordHints == {NoText, "pet name"}
IdentificationNotes == {"wears glasses"}

\* SQL LIKE of a value against a pattern: % is any run of characters, _ any one
\* character; ILIKE compares the others without case
RECURSIVE Like(_, _)
Like(value, pattern) ==
    IF pattern = <<>> THEN value = <<>>
    ELSE IF Head(pattern) = "%"
         THEN \/ Like(value, Tail(pattern))
              \/ value # <<>> /\ Like(Tail(value), pattern)
         ELSE /\ value # <<>>
              /\ Head(pattern) = "_" \/ Lower(Head(pattern)) = Lower(Head(value))
              /\ Like(Tail(value), Tail(pattern))

\* AuthorizedPickup.name.ilike(f"%{pickup_name}%")
NameMatches(name, pickup_name) == Like(name, <<"%">> \o pickup_name \o <<"%">>)

\* AuthorizedPickup.is_active == True
ActiveFilter_Off(row) == TRUE

ActiveFilter(row) == row.is_active

\* the rows the query of verify_pickup_authorization selects; .first() is one of them
VerifyMatches(table, child_id, pickup_name) ==
    {p \in DOMAIN table :
        /\ table[p].child_id = child_id
        /\ NameMatches(table[p].name, pickup_name)
        /\ ActiveFilter(table[p])}

\* "password_hint": pickup.password_hint if pickup.requires_password else None
HintShown(row) == IF row.requires_password THEN row.password_hint ELSE NoText

NotAuthorized_WithHints(table, child_id, pickup_name) ==
    [op |-> "verify_pickup_authorization", status |-> HTTP_200_OK, authorized |-> FALSE,
     child_id |-> child_id, pickup_name |-> pickup_name,
     password_hint |-> {table[p].password_hint : p \in RowsOf(table, child_id)}]

\* the answer when the query selects nothing
NotAuthorized(table, child_id, pickup_name) ==
    [op |-> "verify_pickup_authorization", status |-> HTTP_200_OK, authorized |-> FALSE,
     child_id |-> child_id, pickup_name |-> pickup_name]

\* the answer built from the selected row; pickup_name is the path parameter
\* of the request, kept with the answer
Authorized(table, p, child_id, pickup_name) ==
    [op |-> "verify_pickup_authorization", status |-> HTTP_200_OK, authorized |-> TRUE,
     child_id |-> child_id, pickup_name |-> pickup_name,
     pickup_person |-> [id |-> p,
                        name |-> table[p].name,
                        requires_password |-> table[p].requires_password,
                        password_hint |-> HintShown(table[p]),
                        identification_notes |-> table[p].identification_notes]]

\* the answers verify_pickup_authorization can give for an existing child: the
\* query has no order_by, so .first() is any of the selected rows
VerifyResponses(table, child_id, pickup_name) ==
    IF VerifyMatches(table, child_id, pickup_name) = {}
    THEN {NotAuthorized(table, child_id, pickup_name)}
    ELSE {Authorized(table, p, child_id, pickup_name) :
             p \in VerifyMatches(table, child_id, pickup_name)}

PickupFrame == <<children, contacts, attendance, auths, logs, immunizations, credentials, incidents, parents, child_parents, activities, enrollment_forms, today, grace, in_flight>>

\* relationship_type, phone and photo_url are stored as given and decide nothing
create_authorized_pickup ==
    \E child_id \in ChildIds, name \in StoredNames, requires_password \in BOOLEAN,
       password_hint \in PasswordHints, identification_notes \in IdentificationNotes,
       is_active \in BOOLEAN :
      IF child_id \notin DOMAIN children
      THEN /\ response' = Resp("create_authorized_pickup", HTTP_404_NOT_FOUND, None, child_id)
           /\ UNCHANGED <<pickups, PickupFrame>>
      ELSE /\ DOMAIN pickups # PickupIds
           /\ LET id == FreshId(pickups, PickupIds) IN
              /\ pickups' = Insert(pickups, id,
                              [child_id |-> child_id, name |-> name,
                               requires_password |-> requires_password,
                               password_hint |-> password_hint,
                               identification_notes |-> identification_notes,
                               is_active |-> is_active])
              /\ response' = Resp("create_authorized_pickup", HTTP_201_CREATED, id, child_id)
           /\ UNCHANGED PickupFrame

\* setattr writes the fields the body sets (exclude_unset) and leaves the others:
\* the bodies are drawn from the values create takes, so the merged row is any
\* row of the same child over those values
update_authorized_pickup ==
    \E pickup_id \in PickupIds, name \in StoredNames, requires_password \in BOOLEAN,
       password_hint \in PasswordHints, is_active \in BOOLEAN :
      IF pickup_id \notin DOMAIN pickups
      THEN /\ response' = Resp("update_authorized_pickup", HTTP_404_NOT_FOUND, pickup_id, None)
           /\ UNCHANGED <<pickups, PickupFrame>>
      ELSE LET pickup == pickups[pickup_id] IN
           /\ pickups' = [pickups EXCEPT ![pickup_id] =
                 [child_id |-> pickup.child_id,
                  name |-> name,
                  requires_password |-> requires_password,
                  password_hint |-> password_hint,
                  identification_notes |-> pickup.identification_notes,
                  is_active |-> is_active]]
           /\ response' = Resp("update_authorized_pickup", HTTP_200_OK, pickup_id, pickup.child_id)
           /\ UNCHANGED PickupFrame

deactivate_authorized_pickup ==
    \E pickup_id \in PickupIds :
      IF pickup_id \notin DOMAIN pickups
      THEN /\ response' = Resp("deactivate_authorized_pickup", HTTP_404_NOT_FOUND, pickup_id, None)
           /\ UNCHANGED <<pickups, PickupFrame>>
      ELSE /\ pickups' = [pickups EXCEPT ![pickup_id].is_active = FALSE]
           /\ response' = Resp("deactivate_authorized_pickup", HTTP_200_OK, pickup_id,
                               pickups[pickup_id].child_id)
           /\ UNCHANGED PickupFrame

activate_authorized_pickup ==
    \E pickup_id \in PickupIds :
      IF pickup_id \notin DOMAIN pickups
      THEN /\ response' = Resp("activate_authorized_pickup", HTTP_404_NOT_FOUND, pickup_id, None)
           /\ UNCHANGED <<pickups, PickupFrame>>
      ELSE /\ pickups' = [pickups EXCEPT ![pickup_id].is_active = TRUE]
           /\ response' = Resp("activate_authorized_pickup", HTTP_200_OK, pickup_id,
                               pickups[pickup_id].child_id)
           /\ UNCHANGED PickupFrame

\* hard delete, admin only
delete_authorized_pickup ==
    \E pickup_id \in PickupIds, role \in Roles :
      IF NotAdmin(role)
      THEN /\ response' = DeleteResp(role, "delete_authorized_pickup", HTTP_403_FORBIDDEN, pickup_id, None)
           /\ UNCHANGED <<pickups, PickupFrame>>
      ELSE IF pickup_id \notin DOMAIN pickups
      THEN /\ response' = DeleteResp(role, "delete_authorized_pickup", HTTP_404_NOT_FOUND, pickup_id, None)
           /\ UNCHANGED <<pickups, PickupFrame>>
      ELSE /\ pickups' = Remove(pickups, pickup_id)
           /\ response' = DeleteResp(role, "delete_authorized_pickup", HTTP_204_NO_CONTENT, pickup_id,
                               pickups[pickup_id].child_id)
           /\ UNCHANGED PickupFrame

verify_pickup_authorization ==
    \E child_id \in ChildIds, pickup_name \in SuppliedNames :
      IF child_id \notin DOMAIN children
      THEN /\ response' = Resp("verify_pickup_authorization", HTTP_404_NOT_FOUND, None, child_id)
           /\ UNCHANGED <<pickups, PickupFrame>>
      ELSE /\ response' \in VerifyResponses(pickups, child_id, pickup_name)
           /\ UNCHANGED <<pickups, PickupFrame>>


-----------------------------------------------------------------------------
(* Compliance: immunization records and staff credentials *)

ImmunizationIds == 1..MaxImmunizations
CredentialIds == 1..MaxCredentials
\* days: int = Query(30, ge=1, le=365)
DaysAhead == 1..MaxDaysAhead
\* the uuids a request can name as user_id: the users, and one of no user
UserIds == Users \cup {3}
valid_types == {"CPR", "First Aid", "Background Check", "TB Test", "DCFS Training",
                "Fingerprinting", "Mandated Reporter"}
CredentialTypes == {"CPR", "Yoga"}

ComplianceFrame == <<children, contacts, attendance, pickups, auths, logs, incidents, parents, child_parents, activities, enrollment_forms, today, grace, in_flight>>

\* vaccine_name, administration_date, is_verified and the others are stored as
\* given and decide nothing
create_immunization_record ==
    \E child_id \in ChildIds, expiration_date \in Dates \cup {NoDate} :
      IF child_id \notin DOMAIN children
      THEN /\ response' = Resp("create_immunization_record", HTTP_404_NOT_FOUND, None, child_id)
           /\ UNCHANGED <<immunizations, credentials, ComplianceFrame>>
      ELSE /\ DOMAIN immunizations # ImmunizationIds
           /\ LET id == FreshId(immunizations, ImmunizationIds) IN
              /\ immunizations' = Insert(immunizations, id,
                                    [child_id |-> child_id, expiration_date |-> expiration_date])
              /\ response' = Resp("create_immunization_record", HTTP_201_CREATED, id, child_id)
           /\ UNCHANGED <<credentials, ComplianceFrame>>

\* update_data: the fields the body sets; setattr writes each of them
update_immunization_record ==
    \E record_id \in ImmunizationIds, update_data \in SUBSET {"expiration_date"},
       expiration_date \in Dates \cup {NoDate} :
      IF record_id \notin DOMAIN immunizations
      THEN /\ response' = Resp("update_immunization_record", HTTP_404_NOT_FOUND, record_id, None)
           /\ UNCHANGED <<immunizations, credentials, ComplianceFrame>>
      ELSE /\ immunizations' =
                 IF "expiration_date" \in update_data
                 THEN [immunizations EXCEPT ![record_id].expiration_date = expiration_date]
                 ELSE immunizations
           /\ response' = Resp("update_immunization_record", HTTP_200_OK, record_id,
                               immunizations[record_id].child_id)
           /\ UNCHANGED <<credentials, ComplianceFrame>>

delete_immunization_record ==
    \E record_id \in ImmunizationIds, role \in Roles :
      IF NotAdmin(role)
      THEN /\ response' = DeleteResp(role, "delete_immunization_record", HTTP_403_FORBIDDEN, record_id, None)
           /\ UNCHANGED <<immunizations, credentials, ComplianceFrame>>
      ELSE IF record_id \notin DOMAIN immunizations
      THEN /\ response' = DeleteResp(role, "delete_immunization_record", HTTP_404_NOT_FOUND, record_id, None)
           /\ UNCHANGED <<immunizations, credentials, ComplianceFrame>>
      ELSE /\ immunizations' = Remove(immunizations, record_id)
           /\ response' = DeleteResp(role, "delete_immunization_record", HTTP_204_NO_CONTENT, record_id,
                               immunizations[record_id].child_id)
           /\ UNCHANGED <<credentials, ComplianceFrame>>

\* the filter of the expiring queries: expiration_date.isnot(None),
\* expiration_date <= cutoff_date, expiration_date >= date.today()
Expiring_BeforeCutoff(expiration_date, cutoff_date) ==
    /\ expiration_date # NoDate
    /\ expiration_date < cutoff_date
    /\ expiration_date >= today

Expiring(expiration_date, cutoff_date) ==
    /\ expiration_date # NoDate
    /\ expiration_date <= cutoff_date
    /\ expiration_date >= today

\* .order_by(expiration_date).all(): the selected rows in an order of their
\* dates; rows of one date come in any order
OrderedBy(table, rows) ==
    {records \in [1..Cardinality(rows) -> rows] :
        \A i, j \in 1..Cardinality(rows) :
           i < j => /\ records[i] # records[j]
                    /\ table[records[i]].expiration_date <= table[records[j]].expiration_date}

\* (record.expiration_date - date.today()).days
days_until_expiration(expiration_date) == expiration_date - today

ExpiringResp(op, days, expiring_list) ==
    [op |-> op, status |-> HTTP_200_OK, days |-> days, expiring_list |-> expiring_list]

get_expiring_immunizations ==
    \E days \in DaysAhead :
      LET cutoff_date == today + days
          selected == {r \in DOMAIN immunizations :
                          Expiring(immunizations[r].expiration_date, cutoff_date)}
      IN \E records \in OrderedBy(immunizations, selected) :
           LET with_child == SelectSeq(records,
                                LAMBDA r : immunizations[r].child_id \in DOMAIN children)
               expiring_list ==
                 [i \in 1..Len(with_child) |->
                    LET record == immunizations[with_child[i]] IN
                    [record_id |-> with_child[i],
                     child_id |-> record.child_id,
                     expiration_date |-> record.expiration_date,
                     days_until_expiration |-> days_until_expiration(record.expiration_date)]]
           IN /\ response' = ExpiringResp("get_expiring_immunizations", days, expiring_list)
              /\ UNCHANGED <<immunizations, credentials, ComplianceFrame>>

\* StaffCredential(**credential_data.model_dump(), is_expired=is_expired): the
\* dump holds is_expired already, the call raises TypeError and nothing is added;
\* user_id and credential_type of the body are kept with the answer
create_staff_credential ==
    \E user_id \in UserIds, credential_type \in CredentialTypes :
      /\ response' =
           [op |-> "create_staff_credential",
            status |-> IF user_id \notin Users THEN HTTP_404_NOT_FOUND
                       ELSE IF credential_type \notin valid_types THEN HTTP_400_BAD_REQUEST
                       ELSE HTTP_500_INTERNAL_SERVER_ERROR,
            id |-> None, child_id |-> None,
            user_id |-> user_id, credential_type |-> credential_type]
      /\ UNCHANGED <<immunizations, credentials, ComplianceFrame>>

\* update_data: the fields the body sets; is_expired is recomputed when the body
\* sets expiration_date, and setattr then writes each field of the body
update_staff_credential ==
    \E credential_id \in CredentialIds, update_data \in SUBSET {"expiration_date", "is_expired"},
       expiration_date \in Dates \cup {NoDate}, is_expired \in BOOLEAN :
      IF credential_id \notin DOMAIN credentials
      THEN /\ response' = Resp("update_staff_credential", HTTP_404_NOT_FOUND, credential_id, None)
           /\ UNCHANGED <<immunizations, credentials, ComplianceFrame>>
      ELSE LET credential == credentials[credential_id]
               rechecked == IF "expiration_date" \in update_data
                            THEN expiration_date # NoDate /\ expiration_date < today
                            ELSE credential.is_expired
           IN
           /\ credentials' = [credentials EXCEPT ![credential_id] =
                 [user_id |-> credential.user_id,
                  expiration_date |-> IF "expiration_date" \in update_data
                                      THEN expiration_date ELSE credential.expiration_date,
                  is_expired |-> IF "is_expired" \in update_data
                                 THEN is_expired ELSE rechecked]]
           /\ response' = Resp("update_staff_credential", HTTP_200_OK, credential_id, None)
           /\ UNCHANGED <<immunizations, ComplianceFrame>>

delete_staff_credential ==
    \E credential_id \in CredentialIds, role \in Roles :
      IF NotAdmin(role)
      THEN /\ response' = DeleteResp(role, "delete_staff_credential", HTTP_403_FORBIDDEN, credential_id, None)
           /\ UNCHANGED <<immunizations, credentials, ComplianceFrame>>
      ELSE IF credential_id \notin DOMAIN credentials
      THEN /\ response' = DeleteResp(role, "delete_staff_credential", HTTP_404_NOT_FOUND, credential_id, None)
           /\ UNCHANGED <<immunizations, credentials, ComplianceFrame>>
      ELSE /\ credentials' = Remove(credentials, credential_id)
           /\ response' = DeleteResp(role, "delete_staff_credential", HTTP_204_NO_CONTENT, credential_id, None)
           /\ UNCHANGED <<immunizations, ComplianceFrame>>

get_expiring_credentials ==
    \E days \in DaysAhead :
      LET cutoff_date == today + days
          selected == {c \in DOMAIN credentials :
                          Expiring(credentials[c].expiration_date, cutoff_date)}
      IN \E ordered \in OrderedBy(credentials, selected) :
           LET with_user == SelectSeq(ordered, LAMBDA c : credentials[c].user_id \in Users)
               expiring_list ==
                 [i \in 1..Len(with_user) |->
                    LET credential == credentials[with_user[i]] IN
                    [credential_id |-> with_user[i],
                     user_id |-> credential.user_id,
                     expiration_date |-> credential.expiration_date,
                     days_until_expiration |-> days_until_expiration(credential.expiration_date)]]
           IN /\ response' = ExpiringResp("get_expiring_credentials", days, expiring_list)
              /\ UNCHANGED <<immunizations, credentials, ComplianceFrame>>

----------------------------------------------------------------------------
(* Incident reports *)

IncidentIds == 1..MaxIncidents
\* datetime.now() and the datetimes of a body, read in days
Stamps == Days
valid_incident_types == {"injury", "illness", "behavioral", "accident", "other"}
IncidentTypes == {"injury", "tantrum"}
valid_methods == {"phone", "email", "in-person", "sms"}
\* parent_notification_method of a body, None when absent, and
\* notification_method of the query
BodyMethods == {NoText, "phone", "fax"}
QueryMethods == {"phone", "fax"}

IncidentFrame == <<children, contacts, attendance, pickups, auths, logs, immunizations,
                   credentials, parents, child_parents, activities, enrollment_forms, today, grace, in_flight>>

\* the fields of a report that the notification endpoints read or write; the
\* others, parent_notification_method among them, are stored as given
IncidentRows(child_id) ==
    [child_id : {child_id},
     parent_notified : BOOLEAN,
     parent_notified_at : Stamps \cup {NoDate},
     dcfs_notification_required : BOOLEAN,
     dcfs_notified_at : Stamps \cup {NoDate}]

\* IncidentReport(**report_data.model_dump(), reported_by=current_user.id)
create_incident_report ==
    \E child_id \in ChildIds, incident_type \in IncidentTypes,
       parent_notification_method \in BodyMethods :
      IF child_id \notin DOMAIN children
      THEN /\ response' = Resp("create_incident_report", HTTP_404_NOT_FOUND, None, child_id)
           /\ UNCHANGED <<incidents, IncidentFrame>>
      ELSE IF incident_type \notin valid_incident_types
      THEN /\ response' = Resp("create_incident_report", HTTP_400_BAD_REQUEST, None, child_id)
           /\ UNCHANGED <<incidents, IncidentFrame>>
      ELSE IF parent_notification_method # NoText /\ parent_notification_method \notin valid_methods
      THEN /\ response' = Resp("create_incident_report", HTTP_400_BAD_REQUEST, None, child_id)
           /\ UNCHANGED <<incidents, IncidentFrame>>
      ELSE /\ DOMAIN incidents # IncidentIds
           /\ \E report_data \in IncidentRows(child_id) :
                LET id == FreshId(incidents, IncidentIds) IN
                /\ incidents' = Insert(incidents, id, report_data)
                /\ response' = Resp("create_incident_report", HTTP_201_CREATED, id, child_id)
           /\ UNCHANGED IncidentFrame

\* setattr writes the fields of IncidentReportUpdate the body sets
\* (exclude_unset) and leaves the others: the merged row is any row of the same
\* child over the values a body can carry
update_incident_report ==
    \E report_id \in IncidentIds :
      IF report_id \notin DOMAIN incidents
      THEN /\ response' = Resp("update_incident_report", HTTP_404_NOT_FOUND, report_id, None)
           /\ UNCHANGED <<incidents, IncidentFrame>>
      ELSE LET report == incidents[report_id] IN
           \E merged \in IncidentRows(report.child_id) :
             /\ incidents' = [incidents EXCEPT ![report_id] = merged]
             /\ response' = Resp("update_incident_report", HTTP_200_OK, report_id, report.child_id)
             /\ UNCHANGED IncidentFrame

delete_incident_report ==
    \E report_id \in IncidentIds, role \in Roles :
      IF NotAdmin(role)
      THEN /\ response' = DeleteResp(role, "delete_incident_report", HTTP_403_FORBIDDEN, report_id, None)
           /\ UNCHANGED <<incidents, IncidentFrame>>
      ELSE IF report_id \notin DOMAIN incidents
      THEN /\ response' = DeleteResp(role, "delete_incident_report", HTTP_404_NOT_FOUND, report_id, None)
           /\ UNCHANGED <<incidents, IncidentFrame>>
      ELSE /\ incidents' = Remove(incidents, report_id)
           /\ response' = DeleteResp(role, "delete_incident_report", HTTP_204_NO_CONTENT, report_id,
                               incidents[report_id].child_id)
           /\ UNCHANGED IncidentFrame

mark_parent_notified ==
    \E report_id \in IncidentIds, notification_method \in QueryMethods :
      IF report_id \notin DOMAIN incidents
      THEN /\ response' = Resp("mark_parent_notified", HTTP_404_NOT_FOUND, report_id, None)
           /\ UNCHANGED <<incidents, IncidentFrame>>
      ELSE IF notification_method \notin valid_methods
      THEN /\ response' = Resp("mark_parent_notified", HTTP_400_BAD_REQUEST, report_id,
                               incidents[report_id].child_id)
           /\ UNCHANGED <<incidents, IncidentFrame>>
      ELSE /\ incidents' = [incidents EXCEPT ![report_id].parent_notified = TRUE,
                                             ![report_id].parent_notified_at = today]
           /\ response' = Resp("mark_parent_notified", HTTP_200_OK, report_id,
                               incidents[report_id].child_id)
           /\ UNCHANGED IncidentFrame

\* if not report.dcfs_notification_required: 400
NotRequired(report) == ~report.dcfs_notification_required

mark_dcfs_notified ==
    \E report_id \in IncidentIds :
      IF report_id \notin DOMAIN incidents
      THEN /\ response' = Resp("mark_dcfs_notified", HTTP_404_NOT_FOUND, report_id, None)
           /\ UNCHANGED <<incidents, IncidentFrame>>
      ELSE IF NotRequired(incidents[report_id])
      THEN /\ response' = Resp("mark_dcfs_notified", HTTP_400_BAD_REQUEST, report_id,
                               incidents[report_id].child_id)
           /\ UNCHANGED <<incidents, IncidentFrame>>
      ELSE /\ incidents' = [incidents EXCEPT ![report_id].dcfs_notified_at = today]
           /\ response' = Resp("mark_dcfs_notified", HTTP_200_OK, report_id,
                               incidents[report_id].child_id)
           /\ UNCHANGED IncidentFrame

----------------------------------------------------------------------------
(* Parents and their links to children *)

ParentIds == 1..MaxParents
LinkIds == 1..MaxLinks

ParentFrame == <<children, contacts, attendance, pickups, auths, logs, immunizations,
                 credentials, incidents, activities, enrollment_forms, today, grace, in_flight>>

\* names, phones and addresses are stored as given and decide nothing
create_parent ==
    \E is_primary_contact \in BOOLEAN :
      /\ DOMAIN parents # ParentIds
      /\ LET id == FreshId(parents, ParentIds) IN
         /\ parents' = Insert(parents, id, [is_primary_contact |-> is_primary_contact])
         /\ response' = Resp("create_parent", HTTP_201_CREATED, id, None)
      /\ UNCHANGED <<child_parents, ParentFrame>>

\* ParentUpdate carries the contact fields only
update_parent ==
    \E parent_id \in ParentIds :
      /\ response' = Resp("update_parent",
                          IF parent_id \in DOMAIN parents THEN HTTP_200_OK ELSE HTTP_404_NOT_FOUND,
                          parent_id, None)
      /\ UNCHANGED <<parents, child_parents, ParentFrame>>

\* Parent.children: cascade="all, delete-orphan"
delete_parent ==
    \E parent_id \in ParentIds, role \in Roles :
      IF NotAdmin(role)
      THEN /\ response' = DeleteResp(role, "delete_parent", HTTP_403_FORBIDDEN, parent_id, None)
           /\ UNCHANGED <<parents, child_parents, ParentFrame>>
      ELSE IF parent_id \notin DOMAIN parents
      THEN /\ response' = DeleteResp(role, "delete_parent", HTTP_404_NOT_FOUND, parent_id, None)
           /\ UNCHANGED <<parents, child_parents, ParentFrame>>
      ELSE /\ parents' = Remove(parents, parent_id)
           /\ child_parents' = [l \in {k \in DOMAIN child_parents :
                                          child_parents[k].parent_id # parent_id}
                                |-> child_parents[l]]
           /\ response' = DeleteResp(role, "delete_parent", HTTP_204_NO_CONTENT, parent_id, None)
           /\ UNCHANGED ParentFrame

\* a link of the child to the parent exists
Linked_Never(child_id, parent_id) == FALSE

Linked(child_id, parent_id) ==
    \E l \in DOMAIN child_parents :
        child_parents[l].child_id = child_id /\ child_parents[l].parent_id = parent_id

\* the request of create_child_parent_relationship and its answer
LinkResp(status, id, child_id, parent_id) ==
    [op |-> "create_child_parent_relationship", status |-> status, id |-> id,
     child_id |-> child_id, parent_id |-> parent_id]

create_child_parent_relationship ==
    \E child_id \in ChildIds, parent_id \in ParentIds, is_primary \in BOOLEAN :
      IF child_id \notin DOMAIN children \/ parent_id \notin DOMAIN parents
      THEN /\ response' = LinkResp(HTTP_404_NOT_FOUND, None, child_id, parent_id)
           /\ UNCHANGED <<parents, child_parents, ParentFrame>>
      ELSE IF Linked(child_id, parent_id)
      THEN /\ response' = LinkResp(HTTP_400_BAD_REQUEST, None, child_id, parent_id)
           /\ UNCHANGED <<parents, child_parents, ParentFrame>>
      ELSE /\ DOMAIN child_parents # LinkIds
           /\ LET id == FreshId(child_parents, LinkIds) IN
              /\ child_parents' = Insert(child_parents, id,
                                    [child_id |-> child_id, parent_id |-> parent_id,
                                     is_primary |-> is_primary])
              /\ response' = LinkResp(HTTP_201_CREATED, id, child_id, parent_id)
           /\ UNCHANGED <<parents, ParentFrame>>

\* ChildParentUpdate carries relationship_type, is_primary, has_custody and
\* can_pickup, not the ids
update_child_parent_relationship ==
    \E relationship_id \in LinkIds, is_primary \in BOOLEAN :
      IF relationship_id \notin DOMAIN child_parents
      THEN /\ response' = Resp("update_child_parent_relationship", HTTP_404_NOT_FOUND,
                               relationship_id, None)
           /\ UNCHANGED <<parents, child_parents, ParentFrame>>
      ELSE /\ child_parents' = [child_parents EXCEPT ![relationship_id].is_primary = is_primary]
           /\ response' = Resp("update_child_parent_relationship", HTTP_200_OK, relationship_id,
                               child_parents[relationship_id].child_id)
           /\ UNCHANGED <<parents, ParentFrame>>

\* any authenticated caller
delete_child_parent_relationship ==
    \E relationship_id \in LinkIds :
      IF relationship_id \notin DOMAIN child_parents
      THEN /\ response' = Resp("delete_child_parent_relationship", HTTP_404_NOT_FOUND,
                               relationship_id, None)
           /\ UNCHANGED <<parents, child_parents, ParentFrame>>
      ELSE /\ child_parents' = Remove(child_parents, relationship_id)
           /\ response' = Resp("delete_child_parent_relationship", HTTP_204_NO_CONTENT,
                               relationship_id, child_parents[relationship_id].child_id)
           /\ UNCHANGED <<parents, ParentFrame>>

----------------------------------------------------------------------------
(* Activities *)

ActivityIds == 1..MaxActivities

valid_activity_types == {"meal", "nap", "diaper", "play", "learning", "outdoor"}
ActivityTypes == {"meal", "dance"}
valid_moods == {"happy", "sad", "energetic", "tired", "cranky", "neutral"}
Moods == {NoText, "", "happy", "bored"}

\* `if activity_data.mood`: None and the empty string are false
MoodGiven(mood) == mood # NoText /\ mood # ""

ActivityFrame == <<children, contacts, attendance, pickups, auths, logs, immunizations,
                   credentials, incidents, parents, child_parents, enrollment_forms,
                   today, grace, in_flight>>

create_activity ==
    \E child_id \in ChildIds, activity_type \in ActivityTypes, mood \in Moods,
       current_user \in Users :
      IF child_id \notin DOMAIN children
      THEN /\ response' = CallerResp(current_user, "create_activity", HTTP_404_NOT_FOUND, None, child_id)
           /\ UNCHANGED <<activities, ActivityFrame>>
      ELSE IF activity_type \notin valid_activity_types
      THEN /\ response' = CallerResp(current_user, "create_activity", HTTP_400_BAD_REQUEST, None, child_id)
           /\ UNCHANGED <<activities, ActivityFrame>>
      ELSE IF MoodGiven(mood) /\ mood \notin valid_moods
      THEN /\ response' = CallerResp(current_user, "create_activity", HTTP_400_BAD_REQUEST, None, child_id)
           /\ UNCHANGED <<activities, ActivityFrame>>
      ELSE /\ DOMAIN activities # ActivityIds
           /\ LET id == FreshId(activities, ActivityIds) IN
              /\ activities' = Insert(activities, id,
                                 [child_id |-> child_id, activity_type |-> activity_type,
                                  mood |-> mood, logged_by |-> current_user])
              /\ response' = CallerResp(current_user, "create_activity", HTTP_201_CREATED, id, child_id)
           /\ UNCHANGED ActivityFrame

\* `if activity.logged_by != current_user.id and current_user.role != "admin"`
NotLoggerNorAdmin(activity, current_user) ==
    activity.logged_by # current_user /\ UserRole(current_user) # "admin"

\* setattr writes the fields of ActivityUpdate the body sets and leaves the
\* others: the merged row is any row of the same child and logger
update_activity ==
    \E activity_id \in ActivityIds, activity_type \in ActivityTypes, mood \in Moods,
       current_user \in Users :
      IF activity_id \notin DOMAIN activities
      THEN /\ response' = CallerResp(current_user, "update_activity", HTTP_404_NOT_FOUND, activity_id, None)
           /\ UNCHANGED <<activities, ActivityFrame>>
      ELSE IF NotLoggerNorAdmin(activities[activity_id], current_user)
      THEN /\ response' = CallerResp(current_user, "update_activity", HTTP_403_FORBIDDEN, activity_id, None)
           /\ UNCHANGED <<activities, ActivityFrame>>
      ELSE /\ activities' = [activities EXCEPT ![activity_id].activity_type = activity_type,
                                               ![activity_id].mood = mood]
           /\ response' = CallerResp(current_user, "update_activity", HTTP_200_OK, activity_id,
                                       activities[activity_id].child_id)
           /\ UNCHANGED ActivityFrame

delete_activity ==
    \E activity_id \in ActivityIds, current_user \in Users :
      IF activity_id \notin DOMAIN activities
      THEN /\ response' = CallerResp(current_user, "delete_activity", HTTP_404_NOT_FOUND, activity_id, None)
           /\ UNCHANGED <<activities, ActivityFrame>>
      ELSE IF NotLoggerNorAdmin(activities[activity_id], current_user)
      THEN /\ response' = CallerResp(current_user, "delete_activity", HTTP_403_FORBIDDEN, activity_id, None)
           /\ UNCHANGED <<activities, ActivityFrame>>
      ELSE /\ activities' = Remove(activities, activity_id)
           /\ response' = CallerResp(current_user, "delete_activity", HTTP_204_NO_CONTENT, activity_id,
                                       activities[activity_id].child_id)
           /\ UNCHANGED ActivityFrame

----------------------------------------------------------------------------
(* Enrollment forms *)

FormIds == 1..MaxForms

FormFrame == <<children, contacts, attendance, pickups, auths, logs, immunizations,
               credentials, incidents, parents, child_parents, activities, today, grace, in_flight>>

\* `existing`: the child already has a form
HasForm_Never(child_id) == FALSE

HasForm(child_id) == \E f \in DOMAIN enrollment_forms : enrollment_forms[f].child_id = child_id

create_enrollment_form ==
    \E child_id \in ChildIds, is_complete \in BOOLEAN, current_user \in Users :
      IF child_id \notin DOMAIN children
      THEN /\ response' = Resp("create_enrollment_form", HTTP_404_NOT_FOUND, None, child_id)
           /\ UNCHANGED <<enrollment_forms, FormFrame>>
      ELSE IF HasForm(child_id)
      THEN /\ response' = Resp("create_enrollment_form", HTTP_400_BAD_REQUEST, None, child_id)
           /\ UNCHANGED <<enrollment_forms, FormFrame>>
      ELSE /\ DOMAIN enrollment_forms # FormIds
           /\ LET id == FreshId(enrollment_forms, FormIds) IN
              /\ enrollment_forms' = Insert(enrollment_forms, id,
                    [child_id |-> child_id, is_complete |-> is_complete,
                     completed_by |-> IF is_complete THEN current_user ELSE None])
              /\ response' = Resp("create_enrollment_form", HTTP_201_CREATED, id, child_id)
           /\ UNCHANGED FormFrame

\* update_data holds is_complete when the body sets it (exclude_unset)
update_enrollment_form ==
    \E form_id \in FormIds, update_data \in SUBSET {"is_complete"}, is_complete \in BOOLEAN,
       current_user \in Users :
      IF form_id \notin DOMAIN enrollment_forms
      THEN /\ response' = Resp("update_enrollment_form", HTTP_404_NOT_FOUND, form_id, None)
           /\ UNCHANGED <<enrollment_forms, FormFrame>>
      ELSE LET form == enrollment_forms[form_id] IN
           /\ enrollment_forms' = [enrollment_forms EXCEPT ![form_id] =
                 [child_id |-> form.child_id,
                  is_complete |-> IF "is_complete" \in update_data
                                  THEN is_complete ELSE form.is_complete,
                  completed_by |-> IF "is_complete" \in update_data /\ is_complete
                                      /\ ~form.is_complete
                                   THEN current_user ELSE form.completed_by]]
           /\ response' = Resp("update_enrollment_form", HTTP_200_OK, form_id, form.child_id)
           /\ UNCHANGED FormFrame

----------------------------------------------------------------------------
(* Requests of several clients at once: a handler runs its queries in its    *)
(* own transaction and sees what was committed; between its last query and   *)
(* its db.commit() the requests of the other clients may run                 *)

RaceFrame == <<children, pickups, auths, logs, immunizations, credentials, incidents,
               parents, child_parents, activities, enrollment_forms, today, grace>>

\* check_in_child up to `if existing`: the lookups of the child and of today's row
check_in_child_queries(client) ==
    /\ in_flight[client] = Idle
    /\ \E child_id \in ChildIds, check_in_time \in CheckInTimes :
         IF child_id \notin DOMAIN children
         THEN /\ response' = Resp("check_in_child", HTTP_404_NOT_FOUND, None, child_id)
              /\ UNCHANGED <<attendance, contacts, in_flight, RaceFrame>>
         ELSE IF ChildInactive(children[child_id])
         THEN /\ response' = Resp("check_in_child", HTTP_400_BAD_REQUEST, None, child_id)
              /\ UNCHANGED <<attendance, contacts, in_flight, RaceFrame>>
         ELSE IF ExistingAttendance(child_id, today) # {}
         THEN /\ response' = Resp("check_in_child", HTTP_400_BAD_REQUEST, None, child_id)
              /\ UNCHANGED <<attendance, contacts, in_flight, RaceFrame>>
         ELSE /\ in_flight' = [in_flight EXCEPT ![client] =
                                 [op |-> "check_in_child", child_id |-> child_id,
                                  attendance_date |-> today, check_in_time |-> check_in_time]]
              /\ UNCHANGED <<attendance, contacts, response, RaceFrame>>

\* check_in_child from `new_attendance = Attendance(...)` on: db.add and
\* db.commit(); the attendance table has no unique constraint to refuse the row
check_in_child_commit(client) ==
    /\ in_flight[client].op = "check_in_child"
    /\ DOMAIN attendance # AttendanceIds
    /\ LET new_attendance == in_flight[client]
           id == FreshId(attendance, AttendanceIds) IN
       /\ attendance' = Insert(attendance, id,
                          [child_id |-> new_attendance.child_id,
                           attendance_date |-> new_attendance.attendance_date,
                           check_in_time |-> new_attendance.check_in_time,
                           check_out_time |-> NoTime,
                           check_out_by_name |-> NoName,
                           is_late_pickup |-> FALSE,
                           late_pickup_minutes |-> 0])
       /\ response' = Resp("check_in_child", HTTP_201_CREATED, id, new_attendance.child_id)
    /\ in_flight' = [in_flight EXCEPT ![client] = Idle]
    /\ UNCHANGED <<contacts, RaceFrame>>

\* delete_emergency_contact up to `if remaining_contacts <= 2`: the lookup of
\* the contact and the count of the child's contacts
delete_emergency_contact_queries(client) ==
    /\ in_flight[client] = Idle
    /\ \E contact_id \in ContactIds :
         IF contact_id \notin DOMAIN contacts
         THEN /\ response' = Resp("delete_emergency_contact", HTTP_404_NOT_FOUND, contact_id, None)
              /\ UNCHANGED <<attendance, contacts, in_flight, RaceFrame>>
         ELSE LET contact == contacts[contact_id]
                  remaining_contacts == ContactCount(contacts, contact.child_id) IN
              IF BelowFloor(remaining_contacts)
              THEN /\ response' = Resp("delete_emergency_contact", HTTP_400_BAD_REQUEST,
                                       contact_id, contact.child_id)
                   /\ UNCHANGED <<attendance, contacts, in_flight, RaceFrame>>
              ELSE /\ in_flight' = [in_flight EXCEPT ![client] =
                                      [op |-> "delete_emergency_contact",
                                       contact_id |-> contact_id, child_id |-> contact.child_id]]
                   /\ UNCHANGED <<attendance, contacts, response, RaceFrame>>

\* delete_emergency_contact from `db.delete(contact)` on; a row another request
\* deleted meanwhile makes the flush fail (StaleDataError) and the request
\* answers 500
delete_emergency_contact_commit(client) ==
    /\ in_flight[client].op = "delete_emergency_contact"
    /\ LET contact_id == in_flight[client].contact_id IN
       IF contact_id \in DOMAIN contacts
       THEN /\ contacts' = Remove(contacts, contact_id)
            /\ response' = Resp("delete_emergency_contact", HTTP_204_NO_CONTENT, contact_id,
                                in_flight[client].child_id)
       ELSE /\ response' = Resp("delete_emergency_contact", HTTP_500_INTERNAL_SERVER_ERROR,
                                contact_id, in_flight[client].child_id)
            /\ UNCHANGED contacts
    /\ in_flight' = [in_flight EXCEPT ![client] = Idle]
    /\ UNCHANGED <<attendance, RaceFrame>>

----------------------------------------------------------------------------
(* The store after construction: every table empty *)

Init ==
    /\ children = EmptyTable
    /\ contacts = EmptyTable
    /\ attendance = EmptyTable
    /\ pickups = EmptyTable
    /\ auths = EmptyTable
    /\ logs = EmptyTable
    /\ immunizations = EmptyTable
    /\ credentials = EmptyTable
    /\ incidents = EmptyTable
    /\ parents = EmptyTable
    /\ child_parents = EmptyTable
    /\ activities = EmptyTable
    /\ enrollment_forms = EmptyTable
    /\ today = 0
    /\ grace = LATE_PICKUP_GRACE_MINUTES
    /\ in_flight = NoRequests
    /\ response = Resp("start", HTTP_200_OK, None, None)

NextContacts ==
    \/ create_child
    \/ delete_child
    \/ create_emergency_contact
    \/ update_emergency_contact
    \/ delete_emergency_contact
    \/ reorder_emergency_contact

SpecContacts == Init /\ [][NextContacts]_vars


NextAttendance ==
    \/ create_child
    \/ update_child
    \/ deactivate_child
    \/ activate_child
    \/ delete_child
    \/ check_in_child
    \/ check_out_child
    \/ delete_attendance_record
    \/ next_day

SpecAttendance == Init /\ [][NextAttendance]_vars

\* one child checked in at 08:00 and not yet checked out, under each grace period
InitCheckout ==
    /\ children = Insert(EmptyTable, 1, [is_active |-> TRUE])
    /\ attendance = Insert(EmptyTable, 1,
                      [child_id |-> 1, attendance_date |-> 0, check_in_time |-> Time(8, 0, 0),
                       check_out_time |-> NoTime, check_out_by_name |-> NoName,
                       is_late_pickup |-> FALSE, late_pickup_minutes |-> 0])
    /\ contacts = EmptyTable
    /\ pickups = EmptyTable
    /\ auths = EmptyTable
    /\ logs = EmptyTable
    /\ immunizations = EmptyTable
    /\ credentials = EmptyTable
    /\ incidents = EmptyTable
    /\ parents = EmptyTable
    /\ child_parents = EmptyTable
    /\ activities = EmptyTable
    /\ enrollment_forms = EmptyTable
    /\ today = 0
    /\ grace \in GraceValues
    /\ in_flight = NoRequests
    /\ response = Resp("check_in_child", HTTP_201_CREATED, 1, 1)

NextCheckout ==
    \/ check_out_child_any_second

SpecCheckout == InitCheckout /\ [][NextCheckout]_vars

NextMedication ==
    \/ create_child
    \/ delete_child
    \/ create_medication_authorization
    \/ update_medication_authorization
    \/ deactivate_medication_authorization
    \/ delete_medication_authorization
    \/ create_medication_log
    \/ update_medication_log
    \/ delete_medication_log
    \/ get_child_medication_schedule

SpecMedication == Init /\ [][NextMedication]_vars

NextPickup ==
    \/ create_authorized_pickup
    \/ update_authorized_pickup
    \/ deactivate_authorized_pickup
    \/ activate_authorized_pickup
    \/ delete_authorized_pickup
    \/ verify_pickup_authorization

\* the children registered and active, every other table empty
InitRegistered ==
    /\ children = [c \in ChildIds |-> [is_active |-> TRUE]]
    /\ contacts = EmptyTable
    /\ attendance = EmptyTable
    /\ pickups = EmptyTable
    /\ auths = EmptyTable
    /\ logs = EmptyTable
    /\ immunizations = EmptyTable
    /\ credentials = EmptyTable
    /\ incidents = EmptyTable
    /\ parents = EmptyTable
    /\ child_parents = EmptyTable
    /\ activities = EmptyTable
    /\ enrollment_forms = EmptyTable
    /\ today = 0
    /\ grace = LATE_PICKUP_GRACE_MINUTES
    /\ in_flight = NoRequests
    /\ response = Resp("start", HTTP_200_OK, None, None)

SpecPickup == InitRegistered /\ [][NextPickup]_vars

\* the staff_credentials rows present at the start: the table is filled by
\* inserting rows (create_staff_credential adds none)
CredentialRows == [user_id : Users, expiration_date : Dates \cup {NoDate}, is_expired : BOOLEAN]

InitExpiry ==
    /\ children = [c \in ChildIds |-> [is_active |-> TRUE]]
    /\ contacts = EmptyTable
    /\ attendance = EmptyTable
    /\ pickups = EmptyTable
    /\ auths = EmptyTable
    /\ logs = EmptyTable
    /\ immunizations = EmptyTable
    /\ credentials \in UNION {[ids -> CredentialRows] : ids \in SUBSET CredentialIds}
    /\ incidents = EmptyTable
    /\ parents = EmptyTable
    /\ child_parents = EmptyTable
    /\ activities = EmptyTable
    /\ enrollment_forms = EmptyTable
    /\ today = 0
    /\ grace = LATE_PICKUP_GRACE_MINUTES
    /\ in_flight = NoRequests
    /\ response = Resp("start", HTTP_200_OK, None, None)

NextExpiry ==
    \/ delete_child
    \/ create_immunization_record
    \/ update_immunization_record
    \/ delete_immunization_record
    \/ get_expiring_immunizations
    \/ create_staff_credential
    \/ update_staff_credential
    \/ delete_staff_credential
    \/ get_expiring_credentials
    \/ next_day

SpecExpiry == InitExpiry /\ [][NextExpiry]_vars

NextIncidents ==
    \/ create_incident_report
    \/ update_incident_report
    \/ delete_incident_report
    \/ mark_parent_notified
    \/ mark_dcfs_notified
    \/ delete_child
    \/ next_day

SpecIncidents == InitRegistered /\ [][NextIncidents]_vars

\* the rows each router keeps besides the children: emergency_contacts,
\* attendance, authorized_pickups, medications, compliance, incidents, parents,
\* activities
RouterRows ==
    <<Cardinality(DOMAIN contacts),
      Cardinality(DOMAIN attendance),
      Cardinality(DOMAIN pickups),
      Cardinality(DOMAIN auths) + Cardinality(DOMAIN logs),
      Cardinality(DOMAIN immunizations) + Cardinality(DOMAIN credentials)
        + Cardinality(DOMAIN enrollment_forms),
      Cardinality(DOMAIN incidents),
      Cardinality(DOMAIN parents) + Cardinality(DOMAIN child_parents),
      Cardinality(DOMAIN activities)>>

\* the tables of every router but r are empty
Only(r) == \A q \in DOMAIN RouterRows \ {r} : RouterRows[q] = 0

\* router r keeps at most MaxRows rows
Few(r) == RouterRows[r] <= MaxRows

\* every handler that writes or refuses, over a small store: the rows stored
\* at one time are at most MaxRows, all of one router, and children are
\* registered and maintained while no router stores a row
NextStore ==
    \/ /\ Only(0)
       /\ \/ create_child
          \/ update_child
          \/ deactivate_child
          \/ activate_child
    \/ delete_child
    \/ /\ Only(1)
       /\ \/ create_emergency_contact
          \/ update_emergency_contact
          \/ delete_emergency_contact
          \/ reorder_emergency_contact
       /\ Few(1)'
    \/ /\ Only(2)
       /\ \/ check_in_child
          \/ check_out_child
          \/ delete_attendance_record
       /\ Few(2)'
    \/ /\ Only(3)
       /\ \/ create_authorized_pickup
          \/ update_authorized_pickup
          \/ deactivate_authorized_pickup
          \/ activate_authorized_pickup
          \/ delete_authorized_pickup
       /\ Few(3)'
    \/ /\ Only(4)
       /\ \/ create_medication_authorization
          \/ update_medication_authorization
          \/ deactivate_medication_authorization
          \/ delete_medication_authorization
          \/ create_medication_log
          \/ update_medication_log
          \/ delete_medication_log
       /\ Few(4)'
    \/ /\ Only(5)
       /\ \/ create_immunization_record
          \/ update_immunization_record
          \/ delete_immunization_record
          \/ create_staff_credential
          \/ update_staff_credential
          \/ delete_staff_credential
          \/ create_enrollment_form
          \/ update_enrollment_form
       /\ Few(5)'
    \/ /\ Only(6)
       /\ \/ create_incident_report
          \/ update_incident_report
          \/ delete_incident_report
          \/ mark_parent_notified
          \/ mark_dcfs_notified
       /\ Few(6)'
    \/ /\ Only(7)
       /\ \/ create_parent
          \/ update_parent
          \/ delete_parent
          \/ create_child_parent_relationship
          \/ update_child_parent_relationship
          \/ delete_child_parent_relationship
       /\ Few(7)'
    \/ /\ Only(8)
       /\ \/ create_activity
          \/ update_activity
          \/ delete_activity
       /\ Few(8)'

SpecStore == InitExpiry /\ [][NextStore]_vars

NextForms ==
    \/ create_child
    \/ delete_child
    \/ create_enrollment_form
    \/ update_enrollment_form

SpecForms == InitRegistered /\ [][NextForms]_vars

NextParents ==
    \/ create_parent
    \/ update_parent
    \/ delete_parent
    \/ create_child_parent_relationship
    \/ update_child_parent_relationship
    \/ delete_child_parent_relationship
    \/ delete_child

SpecParents == InitRegistered /\ [][NextParents]_vars

NextActivities ==
    \/ create_activity
    \/ update_activity
    \/ delete_activity
    \/ delete_child

SpecActivities == InitRegistered /\ [][NextActivities]_vars

\* check-ins of several clients at once
NextCheckInRace ==
    \/ \E client \in Clients : check_in_child_queries(client)
    \/ \E client \in Clients : check_in_child_commit(client)
    \/ deactivate_child
    \/ activate_child
    \/ next_day

SpecCheckInRace == InitRegistered /\ [][NextCheckInRace]_vars

\* deletes of emergency contacts by several clients at once
NextDeleteRace ==
    \/ create_emergency_contact
    \/ \E client \in Clients : delete_emergency_contact_queries(client)
    \/ \E client \in Clients : delete_emergency_contact_commit(client)

SpecDeleteRace == InitRegistered /\ [][NextDeleteRace]_vars

----------------------------------------------------------------------------
(* C1: every successful delete_emergency_contact leaves the child that owned
   the deleted contact with at least 2 emergency contacts, and a delete
   requested while that child has 2 or fewer contacts answers Bad Request and
   removes nothing. *)
C1_DeleteKeepsFloor ==
    [][response'.op = "delete_emergency_contact" /\ response'.id \in DOMAIN contacts =>
         LET child_id == contacts[response'.id].child_id IN
         /\ response'.status = HTTP_204_NO_CONTENT =>
              /\ contacts' = Remove(contacts, response'.id)
              /\ ContactCount(contacts', child_id) >= 2
         /\ ContactCount(contacts, child_id) <= 2 =>
              /\ response'.status = HTTP_400_BAD_REQUEST
              /\ contacts' = contacts]_vars

\* a delete succeeded and left its child with exactly 2 contacts
C1_Witness ==
    /\ response.op = "delete_emergency_contact"
    /\ response.status = HTTP_204_NO_CONTENT
    /\ ContactCount(contacts, response.child_id) = 2

----------------------------------------------------------------------------
(* C2: in every reachable state there is at most one attendance row per
   (child, attendance_date) pair. *)
C2_OneRowPerChildAndDate ==
    \A a, b \in DOMAIN attendance :
        /\ attendance[a].child_id = attendance[b].child_id
        /\ attendance[a].attendance_date = attendance[b].attendance_date
        => a = b

\* a second check-in of an active child was refused on the day of a row that is
\* already checked out
C2_Witness ==
    /\ response.op = "check_in_child"
    /\ response.status = HTTP_400_BAD_REQUEST
    /\ response.child_id \in DOMAIN children
    /\ children[response.child_id].is_active
    /\ \E a \in ExistingAttendance(response.child_id, today) : attendance[a].check_out_time # NoTime

----------------------------------------------------------------------------
(* C3, as claimed: a checked-out row has is_late_pickup = TRUE exactly when its
   check_out_time is strictly later than 18:00 plus the grace period, and then
   late_pickup_minutes = (minutes from 18:00 to the checkout) - grace;
   otherwise is_late_pickup = FALSE and late_pickup_minutes = 0. *)
C3_LateStrictlyAfterGrace ==
    \A a \in DOMAIN attendance :
        LET row == attendance[a] IN
        row.check_out_time # NoTime =>
            IF row.check_out_time > standard_pickup + grace * SecondsPerMinute
            THEN /\ row.is_late_pickup
                 /\ row.late_pickup_minutes
                      = (row.check_out_time - standard_pickup) \div SecondsPerMinute - grace
            ELSE /\ ~row.is_late_pickup
                 /\ row.late_pickup_minutes = 0

(* C3, amended: a checked-out row has is_late_pickup = TRUE exactly when the
   whole minutes from 18:00 to its check_out_time, seconds dropped, exceed the
   grace period, that is when the checkout is at or after 18:00 plus grace + 1
   minutes; then late_pickup_minutes is those whole minutes less the grace
   period, and otherwise is_late_pickup = FALSE and late_pickup_minutes = 0. *)
C3_LateAfterWholeMinute ==
    \A a \in DOMAIN attendance :
        LET row == attendance[a] IN
        row.check_out_time # NoTime =>
            IF row.check_out_time >= standard_pickup + (grace + 1) * SecondsPerMinute
            THEN /\ row.is_late_pickup
                 /\ row.late_pickup_minutes >= 1
                 /\ \E m \in 0..(24 * 60) :
                      /\ standard_pickup + m * SecondsPerMinute <= row.check_out_time
                      /\ row.check_out_time < standard_pickup + (m + 1) * SecondsPerMinute
                      /\ row.late_pickup_minutes = m - grace
            ELSE /\ ~row.is_late_pickup
                 /\ row.late_pickup_minutes = 0

\* checked out at 18:20:00 under the default grace period of 15 minutes: late by 5
C3_Witness ==
    \E a \in DOMAIN attendance :
        /\ grace = LATE_PICKUP_GRACE_MINUTES
        /\ attendance[a].check_out_time = Time(18, 20, 0)
        /\ attendance[a].is_late_pickup
        /\ attendance[a].late_pickup_minutes = 5

----------------------------------------------------------------------------
(* C9: check_in_child answers Not Found when the child does not exist and Bad
   Request when the child is inactive or already has an attendance row for the
   current date, checked out or not; every failing check-in leaves the
   attendance table as it was. *)
C9_CheckInRefusals ==
    [][response'.op = "check_in_child" =>
         LET child_id == response'.child_id IN
         /\ child_id \notin DOMAIN children => response'.status = HTTP_404_NOT_FOUND
         /\ child_id \in DOMAIN children /\ ~children[child_id].is_active
              => response'.status = HTTP_400_BAD_REQUEST
         /\ child_id \in DOMAIN children
              /\ (\E a \in DOMAIN attendance :
                    /\ attendance[a].child_id = child_id
                    /\ attendance[a].attendance_date = today)
              => response'.status = HTTP_400_BAD_REQUEST
         /\ response'.status # HTTP_201_CREATED => attendance' = attendance]_vars

\* the check-in of a deactivated child with no row for the day was refused
C9_Witness ==
    /\ response.op = "check_in_child"
    /\ response.status = HTTP_400_BAD_REQUEST
    /\ response.child_id \in DOMAIN children
    /\ ~children[response.child_id].is_active
    /\ ExistingAttendance(response.child_id, today) = {}

----------------------------------------------------------------------------
(* C10: once a row is checked out, every later checkout request for it answers
   Bad Request, and its check_out_time, check_out_by_name, is_late_pickup and
   late_pickup_minutes keep their values for as long as the row exists. *)
C10_CheckedOutOnce ==
    [][\A a \in DOMAIN attendance :
         attendance[a].check_out_time # NoTime =>
            /\ response'.op = "check_out_child" /\ response'.id = a
                 => response'.status = HTTP_400_BAD_REQUEST
            /\ a \in DOMAIN attendance' =>
                 /\ attendance'[a].check_out_time = attendance[a].check_out_time
                 /\ attendance'[a].check_out_by_name = attendance[a].check_out_by_name
                 /\ attendance'[a].is_late_pickup = attendance[a].is_late_pickup
                 /\ attendance'[a].late_pickup_minutes = attendance[a].late_pickup_minutes]_vars

\* a second checkout of a row that was checked out late was refused
C10_Witness ==
    /\ response.op = "check_out_child"
    /\ response.status = HTTP_400_BAD_REQUEST
    /\ response.id \in DOMAIN attendance
    /\ attendance[response.id].is_late_pickup
    /\ attendance[response.id].late_pickup_minutes = 5

----------------------------------------------------------------------------
(* C4: for an existing child and an existing authorization,
   create_medication_log succeeds and adds exactly one log if and only if the
   authorization is active, belongs to the child of the log, and
   start_date <= administration_date <= end_date, an absent end_date being no
   upper bound; in every other case it fails and adds no log. *)
C4_LogIffAuthorized ==
    [][/\ response'.op = "create_medication_log"
       /\ response'.child_id \in DOMAIN children
       /\ response'.authorization_id \in DOMAIN auths
       =>
       LET authorization == auths[response'.authorization_id]
           administration_date == response'.administration_date
           valid == /\ authorization.is_active
                    /\ authorization.child_id = response'.child_id
                    /\ authorization.start_date <= administration_date
                    /\ \/ authorization.end_date = NoDate
                       \/ administration_date <= authorization.end_date
       IN
       IF valid
       THEN /\ response'.status = HTTP_201_CREATED
            /\ response'.id \notin DOMAIN logs
            /\ DOMAIN logs' = DOMAIN logs \cup {response'.id}
            /\ \A i \in DOMAIN logs : logs'[i] = logs[i]
            /\ logs'[response'.id].child_id = response'.child_id
            /\ logs'[response'.id].authorization_id = response'.authorization_id
            /\ logs'[response'.id].administration_date = administration_date
       ELSE /\ response'.status = HTTP_400_BAD_REQUEST
            /\ logs' = logs]_vars

\* a log was written on the last day of its authorization's window
C4_Witness ==
    /\ response.op = "create_medication_log"
    /\ response.status = HTTP_201_CREATED
    /\ response.authorization_id \in DOMAIN auths
    /\ auths[response.authorization_id].end_date = response.administration_date
    /\ auths[response.authorization_id].start_date < response.administration_date

(***************************************************************************)
(* Pickup verification                                                     *)
(***************************************************************************)

\* a verify request that reached the query
VerifyAnswered == response.op = "verify_pickup_authorization" /\ response.status = HTTP_200_OK

PickupRows(child_id) ==
    [child_id : {child_id}, name : StoredNames, requires_password : BOOLEAN,
     password_hint : PasswordHints, identification_notes : IdentificationNotes,
     is_active : BOOLEAN]

\* the stores that differ from table only in the fields of child_id's rows,
\* none of them selected for pickup_name
OtherStores(table, child_id, pickup_name) ==
    {other \in [DOMAIN table -> UNION {PickupRows(c) : c \in ChildIds}] :
        /\ \A p \in DOMAIN table :
              /\ other[p].child_id = table[p].child_id
              /\ table[p].child_id # child_id => other[p] = table[p]
        /\ VerifyMatches(other, child_id, pickup_name) = {}}

\* C5: an answer of authorized=false carries no pickup_person, no
\* identification_notes and no password_hint, and is the answer of every store
\* that differs only in the fields of that child's unselected rows; an answer of
\* authorized=true shows a password_hint only when the selected row requires a
\* password
C5_RefusalLeaksNothing ==
    VerifyAnswered =>
      IF response.authorized
      THEN LET p == response.pickup_person.id IN
           response.pickup_person.password_hint # NoText => pickups[p].requires_password
      ELSE /\ DOMAIN response \cap {"pickup_person", "identification_notes", "password_hint"} = {}
           /\ \A other \in OtherStores(pickups, response.child_id, response.pickup_name) :
                 VerifyResponses(other, response.child_id, response.pickup_name) = {response}

\* a refusal while the child has an active row with notes and a hint under another name
C5_Witness ==
    /\ VerifyAnswered
    /\ ~response.authorized
    /\ \E p \in RowsOf(pickups, response.child_id) :
          /\ pickups[p].is_active
          /\ pickups[p].requires_password
          /\ pickups[p].password_hint # NoText

\* the stored name is the supplied name, letter by letter without case
NameMatches_Exact(name, pickup_name) ==
    /\ Len(name) = Len(pickup_name)
    /\ \A i \in 1..Len(name) : Lower(name[i]) = Lower(pickup_name[i])

\* C6: verify answers authorized=true exactly when the child has an active
\* pickup whose name is the supplied name, compared without case
C6_AuthorizedIffNamed ==
    VerifyAnswered =>
      (response.authorized <=>
         \E p \in RowsOf(pickups, response.child_id) :
            /\ pickups[p].is_active
            /\ NameMatches_Exact(pickups[p].name, response.pickup_name))

\* C7: the row an authorized=true answer rests on is an active row of the
\* child asked about; when the only selected row of a child is deactivated or
\* deleted verify answers false for that name, and when a row is activated
\* verify answers true for every name that selects it
C7_ActiveGatesVerify ==
    /\ [](VerifyAnswered /\ response.authorized =>
            LET p == response.pickup_person.id IN
            /\ p \in DOMAIN pickups
            /\ pickups[p].is_active
            /\ pickups[p].child_id = response.child_id)
    /\ [][/\ response'.op \in {"deactivate_authorized_pickup", "delete_authorized_pickup"}
          /\ response'.status \in {HTTP_200_OK, HTTP_204_NO_CONTENT}
          => \A pickup_name \in SuppliedNames :
                VerifyMatches(pickups, response'.child_id, pickup_name) = {response'.id}
                => \A answer \in VerifyResponses(pickups', response'.child_id, pickup_name) :
                      ~answer.authorized]_vars
    /\ [][/\ response'.op = "activate_authorized_pickup"
          /\ response'.status = HTTP_200_OK
          => \A pickup_name \in SuppliedNames :
                NameMatches(pickups'[response'.id].name, pickup_name)
                => \A answer \in VerifyResponses(pickups', response'.child_id, pickup_name) :
                      answer.authorized]_vars

\* a verify refused for a child whose only row under that name is inactive,
\* while another child has an active row under it
C7_Witness ==
    /\ VerifyAnswered
    /\ ~response.authorized
    /\ \E p \in RowsOf(pickups, response.child_id) :
          /\ ~pickups[p].is_active
          /\ NameMatches(pickups[p].name, response.pickup_name)
    /\ \E p \in DOMAIN pickups :
          /\ pickups[p].child_id # response.child_id
          /\ pickups[p].is_active
          /\ NameMatches(pickups[p].name, response.pickup_name)

(***************************************************************************)
(* Expiration windows                                                      *)
(***************************************************************************)

\* the rows of a table whose expiration date is present and lies in
\* [today, today + days]
InWindow(table, days) ==
    {r \in DOMAIN table :
        /\ table[r].expiration_date # NoDate
        /\ today <= table[r].expiration_date
        /\ table[r].expiration_date <= today + days}

\* C8: get_expiring_immunizations(days) and get_expiring_credentials(days)
\* return exactly the records whose expiration date is present and lies in
\* [today, today + days], each once and each with days_until_expiration equal to
\* its date minus today, a value in 0..days
C8_ExactlyTheWindow ==
    /\ response.op = "get_expiring_immunizations" =>
          LET listed == response.expiring_list IN
          /\ {listed[i].record_id : i \in DOMAIN listed} = InWindow(immunizations, response.days)
          /\ Len(listed) = Cardinality(InWindow(immunizations, response.days))
          /\ \A i \in DOMAIN listed :
                /\ listed[i].expiration_date = immunizations[listed[i].record_id].expiration_date
                /\ listed[i].days_until_expiration = listed[i].expiration_date - today
                /\ listed[i].days_until_expiration \in 0..response.days
    /\ response.op = "get_expiring_credentials" =>
          LET listed == response.expiring_list IN
          /\ {listed[i].credential_id : i \in DOMAIN listed} = InWindow(credentials, response.days)
          /\ Len(listed) = Cardinality(InWindow(credentials, response.days))
          /\ \A i \in DOMAIN listed :
                /\ listed[i].expiration_date = credentials[listed[i].credential_id].expiration_date
                /\ listed[i].days_until_expiration = listed[i].expiration_date - today
                /\ listed[i].days_until_expiration \in 0..response.days

\* an immunization query that lists a record expiring on the last day of the
\* window and leaves out one that expired before today
C8_Witness ==
    /\ response.op = "get_expiring_immunizations"
    /\ \E i \in DOMAIN response.expiring_list :
          response.expiring_list[i].days_until_expiration = response.days
    /\ \E r \in DOMAIN immunizations :
          /\ immunizations[r].expiration_date # NoDate
          /\ immunizations[r].expiration_date < today

(***************************************************************************)
(* Emergency-contact priorities                                            *)
(***************************************************************************)

\* no two contacts of one child hold the same priority_order
UniquePriorities(table) ==
    \A a, b \in DOMAIN table :
        /\ table[a].child_id = table[b].child_id
        /\ table[a].priority_order = table[b].priority_order
        => a = b

\* another contact of the owner of contact_id holds the priority contact_id has in table
HeldByAnother(before, table, contact_id) ==
    \E other \in DOMAIN before :
        /\ other # contact_id
        /\ before[other].child_id = table[contact_id].child_id
        /\ before[other].priority_order = table[contact_id].priority_order

\* C11: no two emergency contacts of one child ever hold the same
\* priority_order; a create or update never succeeds in assigning a priority
\* that another contact of the child holds, and one that answers Bad Request
\* changes nothing
C11_PriorityUniquePerChild ==
    /\ [] UniquePriorities(contacts)
    /\ [][response'.op \in {"create_emergency_contact", "update_emergency_contact"} =>
            /\ response'.status \in {HTTP_201_CREATED, HTTP_200_OK} =>
                  ~HeldByAnother(contacts, contacts', response'.id)
            /\ response'.status = HTTP_400_BAD_REQUEST => contacts' = contacts
            /\ response'.status \in {HTTP_200_OK, HTTP_201_CREATED, HTTP_400_BAD_REQUEST,
                                     HTTP_404_NOT_FOUND}]_vars

\* an update was refused for a child that has contacts at two priorities
C11_Witness ==
    /\ response.op = "update_emergency_contact"
    /\ response.status = HTTP_400_BAD_REQUEST
    /\ \E a, b \in RowsOf(contacts, response.child_id) :
          contacts[a].priority_order # contacts[b].priority_order

\* the priorities the contacts of a child hold
PrioritiesOf(table, child_id) == {table[c].priority_order : c \in RowsOf(table, child_id)}

\* C12: when the n contacts of a child hold the priorities 1..n, a reorder of
\* contact c to any requested priority p leaves the child's priorities exactly
\* 1..n with c at p, moves the contacts between c's old and new place by one,
\* keeps the order of the other contacts and leaves other children's contacts
\* as they were
C12_ReorderKeepsContiguous ==
    [][/\ response'.op = "reorder_emergency_contact"
       /\ response'.status = HTTP_200_OK
       /\ PrioritiesOf(contacts, response'.child_id)
             = 1..ContactCount(contacts, response'.child_id)
       => LET c == response'.id
              child_id == response'.child_id
              old == contacts[c].priority_order
              new == response'.new_priority
              others == RowsOf(contacts, child_id) \ {c}
          IN /\ DOMAIN contacts' = DOMAIN contacts
             /\ PrioritiesOf(contacts', child_id) = 1..ContactCount(contacts, child_id)
             /\ UniquePriorities(contacts')
             /\ contacts'[c].priority_order = new
             /\ \A o \in others :
                   contacts'[o].priority_order =
                      IF new <= contacts[o].priority_order /\ contacts[o].priority_order < old
                      THEN contacts[o].priority_order + 1
                      ELSE IF old < contacts[o].priority_order /\ contacts[o].priority_order <= new
                      THEN contacts[o].priority_order - 1
                      ELSE contacts[o].priority_order
             /\ \A a, b \in others :
                   contacts[a].priority_order < contacts[b].priority_order
                   => contacts'[a].priority_order < contacts'[b].priority_order
             /\ \A o \in DOMAIN contacts :
                   contacts[o].child_id # child_id => contacts'[o] = contacts[o]]_vars

(***************************************************************************)
(* Incident notifications                                                  *)
(***************************************************************************)

\* C13: once a report has parent_notified = true (a dcfs_notified_at that is
\* not null), no request on it short of its deletion makes parent_notified
\* false (clears dcfs_notified_at); marking again succeeds and rewrites only
\* the timestamp
C13_NotificationOneWay ==
    [][\A r \in DOMAIN incidents \cap DOMAIN incidents' :
          /\ incidents[r].parent_notified => incidents'[r].parent_notified
          /\ incidents[r].dcfs_notified_at # NoDate => incidents'[r].dcfs_notified_at # NoDate
          /\ response'.op = "mark_parent_notified" /\ response'.status = HTTP_200_OK
             /\ response'.id = r
             => incidents'[r] = [incidents[r] EXCEPT !.parent_notified = TRUE,
                                                     !.parent_notified_at = today]
          /\ response'.op = "mark_dcfs_notified" /\ response'.status = HTTP_200_OK
             /\ response'.id = r
             => incidents'[r] = [incidents[r] EXCEPT !.dcfs_notified_at = today]]_vars

\* C14: mark_dcfs_notified on a report whose dcfs_notification_required is
\* false answers Bad Request and leaves the report as it was, and every report
\* with a dcfs_notified_at that is not null has dcfs_notification_required = true
C14_DcfsOnlyWhenRequired ==
    /\ [][/\ response'.op = "mark_dcfs_notified"
          /\ response'.id \in DOMAIN incidents
          /\ ~incidents[response'.id].dcfs_notification_required
          => /\ response'.status = HTTP_400_BAD_REQUEST
             /\ incidents' = incidents]_vars
    /\ [](\A r \in DOMAIN incidents :
             incidents[r].dcfs_notified_at # NoDate => incidents[r].dcfs_notification_required)

(***************************************************************************)
(* Staff credentials                                                       *)
(***************************************************************************)

\* the expiration date is present and earlier than the current date
PastDate(expiration_date) == expiration_date # NoDate /\ expiration_date < today

\* C15: right after every successful create or update of a staff credential
\* its stored is_expired equals (expiration_date is present and earlier than
\* the current date), whatever the request supplied
C15_ExpiredFlagRecomputed ==
    [][/\ response'.op \in {"create_staff_credential", "update_staff_credential"}
       /\ response'.status \in {HTTP_200_OK, HTTP_201_CREATED}
       => LET credential == credentials'[response'.id] IN
          credential.is_expired = PastDate(credential.expiration_date)]_vars

\* C16: create_staff_credential for an existing user answers 201 and stores
\* exactly one new credential when credential_type is an allowed type, and
\* answers Bad Request and stores nothing when it is not
C16_CreateCredential ==
    [][/\ response'.op = "create_staff_credential"
       /\ response'.user_id \in Users
       => IF response'.credential_type \in valid_types
          THEN /\ response'.status = HTTP_201_CREATED
               /\ \E id \in CredentialIds \ DOMAIN credentials :
                     /\ DOMAIN credentials' = DOMAIN credentials \cup {id}
                     /\ credentials'[id].user_id = response'.user_id
                     /\ \A c \in DOMAIN credentials : credentials'[c] = credentials[c]
          ELSE /\ response'.status = HTTP_400_BAD_REQUEST
               /\ credentials' = credentials]_vars

(***************************************************************************)
(* Who may change a medication log                                         *)
(***************************************************************************)

\* the request just answered is op on a log that existed when it arrived
LogRequest(op) == response'.op = op /\ response'.id \in DOMAIN logs

\* the caller of the request just answered gave the medication or is an admin
GiverOrAdmin ==
    \/ logs[response'.id].administered_by = response'.current_user
    \/ UserRole(response'.current_user) = "admin"

\* the request just answered was refused with Forbidden and changed no log
LogForbidden == response'.status = HTTP_403_FORBIDDEN /\ logs' = logs

\* the update just answered went through: only the fields of the body changed
LogUpdated ==
    /\ response'.status = HTTP_200_OK
    /\ DOMAIN logs' = DOMAIN logs
    /\ \A l \in DOMAIN logs :
          [logs'[l] EXCEPT !.parent_notified = FALSE] = [logs[l] EXCEPT !.parent_notified = FALSE]
    /\ \A l \in DOMAIN logs \ {response'.id} : logs'[l] = logs[l]

\* the delete just answered went through: that log and no other is gone
LogDeleted ==
    /\ response'.status = HTTP_204_NO_CONTENT
    /\ logs' = Remove(logs, response'.id)

\* C18, as claimed: update_medication_log and delete_medication_log on an
\* existing log succeed exactly when the caller is the staff member recorded as
\* administered_by or an admin; every other caller gets Forbidden and the log
\* stays as it was
C18_LogEditByGiverOrAdmin ==
    [][/\ LogRequest("update_medication_log") => IF GiverOrAdmin THEN LogUpdated ELSE LogForbidden
       /\ LogRequest("delete_medication_log") => IF GiverOrAdmin THEN LogDeleted ELSE LogForbidden]_vars

\* C18, amended: update_medication_log on an existing log succeeds exactly when
\* the caller is the staff member recorded as administered_by or an admin;
\* delete_medication_log on an existing log succeeds exactly when the caller is
\* an admin; every other caller gets Forbidden and the log stays as it was
C18_UpdateByGiverDeleteByAdmin ==
    [][/\ LogRequest("update_medication_log") => IF GiverOrAdmin THEN LogUpdated ELSE LogForbidden
       /\ LogRequest("delete_medication_log") =>
             IF UserRole(response'.current_user) = "admin" THEN LogDeleted ELSE LogForbidden]_vars

\* the staff member who gave the medication, after updating the log, asked to
\* delete it and was refused: the updated log is still stored
C18_Witness ==
    /\ response.op = "delete_medication_log"
    /\ response.status = HTTP_403_FORBIDDEN
    /\ response.id \in DOMAIN logs
    /\ logs[response.id].administered_by = response.current_user
    /\ logs[response.id].parent_notified

(***************************************************************************)
(* Hard deletes                                                            *)
(***************************************************************************)

\* the admin-only hard deletes
HardDeletes ==
    {"delete_child", "delete_parent", "delete_attendance_record", "delete_authorized_pickup",
     "delete_incident_report", "delete_medication_authorization",
     "delete_immunization_record", "delete_staff_credential"}

\* the table a hard delete removes its record from
Target(op) ==
    CASE op = "delete_child" -> children
      [] op = "delete_parent" -> parents
      [] op = "delete_attendance_record" -> attendance
      [] op = "delete_authorized_pickup" -> pickups
      [] op = "delete_incident_report" -> incidents
      [] op = "delete_medication_authorization" -> auths
      [] op = "delete_immunization_record" -> immunizations
      [] op = "delete_staff_credential" -> credentials

\* every table of the store
Tables ==
    <<children, contacts, attendance, pickups, auths, logs, immunizations, credentials,
      incidents, parents, child_parents, activities, enrollment_forms>>

\* C17: a hard delete of a child, parent, attendance row, authorized pickup,
\* incident report, medication authorization, immunization record or staff
\* credential by a caller whose role is not admin answers Forbidden and deletes
\* nothing; by an admin on an existing record it removes that record
C17_AdminOnlyDeletes ==
    [][\A op \in HardDeletes :
         response'.op = op =>
           /\ response'.role # "admin" =>
                 response'.status = HTTP_403_FORBIDDEN /\ UNCHANGED Tables
           /\ response'.role = "admin" /\ response'.id \in DOMAIN Target(op) =>
                 /\ response'.status = HTTP_204_NO_CONTENT
                 /\ DOMAIN Target(op)' = DOMAIN Target(op) \ {response'.id}]_vars

\* a staff member asked to delete a parent that has a child linked to it and
\* was refused: the parent and the link are still stored
C17_Witness ==
    /\ response.op = "delete_parent"
    /\ response.role = "staff"
    /\ response.status = HTTP_403_FORBIDDEN
    /\ response.id \in DOMAIN parents
    /\ \E l \in DOMAIN child_parents : child_parents[l].parent_id = response.id

(***************************************************************************)
(* References and cascades                                                 *)
(***************************************************************************)

\* the tables whose rows belong to a child
ChildScoped ==
    <<child_parents, contacts, pickups, attendance, activities, incidents, auths, logs,
      enrollment_forms, immunizations>>

\* every row of a child's tables names a stored child, every log a stored
\* authorization
References ==
    /\ \A t \in DOMAIN ChildScoped :
          \A r \in DOMAIN ChildScoped[t] : ChildScoped[t][r].child_id \in DOMAIN children
    /\ \A l \in DOMAIN logs : logs[l].authorization_id \in DOMAIN auths

\* no row of a child's tables names the child
NoRowOf(child_id) ==
    \A t \in DOMAIN ChildScoped :
       \A r \in DOMAIN ChildScoped[t] : ChildScoped[t][r].child_id # child_id

\* no log names the authorization
NoLogOf(authorization_id) ==
    \A l \in DOMAIN logs : logs[l].authorization_id # authorization_id

\* C19: in every reachable state every parent link, emergency contact,
\* authorized pickup, attendance row, activity, incident report, medication
\* authorization, medication log, enrollment form and immunization record names
\* a child that exists and every medication log names an authorization that
\* exists; after delete_child no row of that child remains, and after
\* delete_medication_authorization no log of that authorization remains
C19_ReferencesAndCascades ==
    /\ []References
    /\ [][\A id \in ChildIds \cup AuthIds :
            /\ response'.status = HTTP_204_NO_CONTENT /\ response'.id = id
            => /\ response'.op = "delete_child" => NoRowOf(id)'
               /\ response'.op = "delete_medication_authorization" => NoLogOf(id)']_vars

\* delete_child has removed a child together with its emergency contact, the
\* first one stored, and has kept the contact of the other child
C19_Witness ==
    /\ response.op = "delete_child"
    /\ response.status = HTTP_204_NO_CONTENT
    /\ DOMAIN contacts = {2}
    /\ contacts[2].child_id # response.id

(***************************************************************************)
(* Refused requests                                                        *)
(***************************************************************************)

\* the statuses of a raised HTTPException
ErrorStatuses == {HTTP_400_BAD_REQUEST, HTTP_403_FORBIDDEN, HTTP_404_NOT_FOUND}

\* C20: every request answered Not Found, Bad Request or Forbidden leaves
\* every stored record as it was before the request
C20_ErrorsChangeNothing ==
    [][response'.status \in ErrorStatuses => UNCHANGED Tables]_vars

\* update_emergency_contact was refused because another contact of the child
\* holds the requested priority, with both contacts stored
C20_Witness ==
    /\ response.op = "update_emergency_contact"
    /\ response.status = HTTP_400_BAD_REQUEST
    /\ response.id \in DOMAIN contacts
    /\ \E c \in DOMAIN contacts \ {response.id} :
          contacts[c].child_id = contacts[response.id].child_id

(***************************************************************************)
(* Enrollment forms                                                        *)
(***************************************************************************)

C23_ScheduleJoinsAuthsAndLogs ==
    [][/\ response'.op = "get_child_medication_schedule"
       /\ response'.child_id \in DOMAIN children
       => /\ response'.status = HTTP_200_OK
          /\ response'.medications =
               {[authorization_id |-> a,
                 administered |-> \E l \in DOMAIN logs :
                                     /\ logs[l].authorization_id = a
                                     /\ logs[l].administration_date = response'.schedule_date] :
                  a \in {b \in DOMAIN auths :
                           /\ auths[b].child_id = response'.child_id
                           /\ auths[b].is_active
                           /\ auths[b].start_date <= response'.schedule_date
                           /\ (auths[b].end_date = NoDate
                               \/ auths[b].end_date >= response'.schedule_date)}}]_vars

(***************************************************************************)
(* Logs and the authorization they were given under                        *)
(***************************************************************************)

\* the authorization is active and its window holds the date
Covers(authorization, administration_date) ==
    /\ authorization.is_active
    /\ authorization.start_date <= administration_date
    /\ (authorization.end_date = NoDate \/ administration_date <= authorization.end_date)

\* the log's authorization is stored and belongs to the log's child
SameChild(log) ==
    /\ log.authorization_id \in DOMAIN auths
    /\ auths[log.authorization_id].child_id = log.child_id

\* C24, as claimed: in every reachable state each stored medication log refers
\* to an authorization that is active, belongs to the log's child and whose
\* window holds the log's administration_date
C24_LogsStayAuthorized ==
    \A l \in DOMAIN logs :
       /\ SameChild(logs[l])
       /\ Covers(auths[logs[l].authorization_id], logs[l].administration_date)

\* C24, amended: in every reachable state each stored medication log refers to
\* a stored authorization of the log's child, and at the moment
\* create_medication_log stores a log that authorization is active and its
\* window holds the log's administration_date
C24_LogsAuthorizedWhenCreated ==
    /\ [](\A l \in DOMAIN logs : SameChild(logs[l]))
    /\ [][/\ response'.op = "create_medication_log"
          /\ response'.status = HTTP_201_CREATED
          => /\ response'.id \notin DOMAIN logs
             /\ response'.id \in DOMAIN logs'
             /\ Covers(auths[logs'[response'.id].authorization_id],
                       logs'[response'.id].administration_date)]_vars

\* a log is stored whose authorization has since been deactivated
C24_Witness ==
    /\ response.op = "deactivate_medication_authorization"
    /\ response.status = HTTP_200_OK
    /\ \E l \in DOMAIN logs :
          /\ logs[l].authorization_id = response.id
          /\ ~auths[response.id].is_active

(***************************************************************************)
(* Attendance rows                                                         *)
(***************************************************************************)

\* C25: in every reachable state every attendance row that has a
\* check_out_time has check_out_time later than its check_in_time
C25_CheckOutAfterCheckIn ==
    \A a \in DOMAIN attendance :
       attendance[a].check_out_time # NoTime
       => attendance[a].check_out_time > attendance[a].check_in_time

(***************************************************************************)
(* Activities                                                              *)
(***************************************************************************)

\* C26: in every reachable state each stored activity has activity_type in
\* {meal, nap, diaper, play, learning, outdoor} and a mood that is absent or in
\* {happy, sad, energetic, tired, cranky, neutral}
C26_ActivityEnumerations ==
    \A a \in DOMAIN activities :
       /\ activities[a].activity_type
             \in {"meal", "nap", "diaper", "play", "learning", "outdoor"}
       /\ \/ activities[a].mood = NoText
          \/ activities[a].mood \in {"happy", "sad", "energetic", "tired", "cranky", "neutral"}

(***************************************************************************)
(* Notification timestamps                                                 *)
(***************************************************************************)

\* the timestamp of a report before a step: null for a report not yet stored
StampBefore(report_id, field) ==
    IF report_id \in DOMAIN incidents THEN incidents[report_id][field] ELSE NoDate

\* C27: parent_notified_at of a report changes, from null at its creation on,
\* only when mark_parent_notified succeeds on it, and dcfs_notified_at only
\* when mark_dcfs_notified succeeds on it: create_incident_report and
\* update_incident_report never set or alter either timestamp
C27_StampsOnlyByMark ==
    [][\A r \in DOMAIN incidents' :
         /\ incidents'[r].parent_notified_at # StampBefore(r, "parent_notified_at")
            => /\ response'.op = "mark_parent_notified"
               /\ response'.status = HTTP_200_OK
               /\ response'.id = r
         /\ incidents'[r].dcfs_notified_at # StampBefore(r, "dcfs_notified_at")
            => /\ response'.op = "mark_dcfs_notified"
               /\ response'.status = HTTP_200_OK
               /\ response'.id = r]_vars

(***************************************************************************)
(* Requests at once                                                        *)
(***************************************************************************)

\* C28: when check-in requests for the same child on the same date run their
\* existence query before either commits, at most one of them creates a row:
\* there is at most one attendance row per (child, date) in every state
C28_OneRowUnderInterleaving ==
    \A child_id \in ChildIds, date \in Days :
       Cardinality({a \in DOMAIN attendance :
                       /\ attendance[a].child_id = child_id
                       /\ attendance[a].attendance_date = date}) <= 1

\* C29: when delete requests for different emergency contacts of a child count
\* the child's contacts before either commits, the child still has at least 2
\* contacts after both have completed: no delete that answers 204 leaves the
\* child with fewer than 2
C29_FloorUnderInterleaving ==
    [][/\ response'.op = "delete_emergency_contact"
       /\ response'.status = HTTP_204_NO_CONTENT
       /\ contacts' # contacts
       => ContactCount(contacts', response'.child_id) >= 2]_vars

\* C30: in every reachable state each attendance row has
\* late_pickup_minutes >= 0, is_late_pickup exactly when late_pickup_minutes > 0,
\* and a row with no check_out_time has is_late_pickup = FALSE and
\* late_pickup_minutes = 0
C30_LateFieldsAgree ==
    \A a \in DOMAIN attendance :
       LET row == attendance[a] IN
       /\ row.late_pickup_minutes >= 0
       /\ row.is_late_pickup <=> row.late_pickup_minutes > 0
       /\ row.check_out_time = NoTime =>
            ~row.is_late_pickup /\ row.late_pickup_minutes = 0

\* a row checked out beyond the grace period, and marked late
C30_Witness ==
    /\ response.op = "check_out_child"
    /\ response.status = HTTP_200_OK
    /\ \E a \in DOMAIN attendance :
         /\ attendance[a].check_out_time > standard_pickup
         /\ attendance[a].is_late_pickup
         /\ attendance[a].late_pickup_minutes > 0

====
